---- MODULE Spec2Model ----
(***************************************************************************)
(* State-machine model of bci_logger: SpikeGenerator, EEGGenerator,        *)
(* BrainModel and IntuitionRollAPI (src/bci_logger).                       *)
(*                                                                         *)
(* Units.  Times are integers in milliseconds, rates are integers in Hz,   *)
(* band weights and noise levels are integers in tenths.                   *)
(* A random stream (numpy RandomState or the process-wide np.random) is    *)
(* the pair of its seed and the number of variates drawn from it so far;   *)
(* the variate at a position is a fixed function of (seed, position).      *)
(* BrainModels are constructed with an integer seed; a generator built    *)
(* with no seed has a stream that yields any sequence of variates.         *)
(* Floating-point rounding of duration / dt and of the sample values is    *)
(* not modelled.                                                           *)
(*                                                                         *)
(* Spec and CheckSpec call the methods of BrainModel, GenSpec those of a   *)
(* SpikeGenerator and EegSpec those of an EEGGenerator used on its own;    *)
(* HistSpec simulates and summarizes on one BrainModel, and ApiSpec calls  *)
(* the methods of an IntuitionRollAPI, whose callbacks either return or    *)
(* raise an Exception and leave the data they are given as it is.          *)
(***************************************************************************)
EXTENDS Integers, Sequences, FiniteSets, TLC

(***************************************************************************)
(* Bounds of the model.                                                    *)
(***************************************************************************)
\* calls made on the BrainModel instances in one behaviour of Spec
MaxCalls == 2
\* generate_intuition_signal calls in one behaviour of CheckSpec
MaxChecks == 1
\* n_neurons of a constructed BrainModel ranges over 0..MaxNeurons
MaxNeurons == 1
\* resolution of one uniform variate: a draw is one of 0..RandRes-1, read as
\* the real draw/RandRes in [0,1)
RandRes == 100
\* seeds of the process-wide np.random stream in CheckSpec: 0..NpSeeds-1
NpSeeds == 20
\* calls made on a generator used on its own
MaxGenCalls == 1
\* variates an unseeded stream yields before it repeats
TapeLen == 4
\* calls made on the BrainModel instance in one behaviour of HistSpec
MaxHistCalls == 3
\* calls made on the IntuitionRollAPI in one behaviour of ApiSpec
MaxApiCalls == 2

Instances == {"A", "B"}
Seeds == {1, 2}
NeuronCounts == 0 .. MaxNeurons
\* the eeg_channels of a constructed BrainModel are a prefix of these
EegChannels == <<"Fp1">>

(***************************************************************************)
(* Python helpers.                                                         *)
(***************************************************************************)
\* int(a / b) for b > 0: truncation toward zero
Trunc(a, b) == IF a >= 0 THEN a \div b ELSE -((-a) \div b)

\* F applied to the value of e, with e evaluated once
Bind(e, F(_)) == CHOOSE y \in {F(x) : x \in {e}} : TRUE

RECURSIVE SumSeq(_)
SumSeq(s) == IF s = <<>> THEN 0 ELSE Head(s) + SumSeq(Tail(s))

(***************************************************************************)
(* Random streams.                                                         *)
(***************************************************************************)
RandomState(seed) == [seed |-> seed, pos |-> 0]

\* RandomState(None): seeded from the operating system, so its variates are
\* any sequence; tape is the sequence this stream yields, over and over
Unseeded(tape) == [seed |-> "None", pos |-> 0, tape |-> tape]

\* the variate the stream yields k draws from now, as a numerator over RandRes
Variate(rng, k) ==
    LET p == rng.pos + k
    IN  IF "tape" \in DOMAIN rng
        THEN rng.tape[(p % Len(rng.tape)) + 1]
        ELSE (rng.seed * 5 + p * 37 + p * p * 11) % RandRes

Advance(rng, n) == [rng EXCEPT !.pos = @ + n]

\* rng.uniform(low, high) = low + (high - low) * random(); no check of low <= high
uniform(rng, low, high) == low + ((high - low) * Variate(rng, 0)) \div RandRes

\* np.random.randint(low, high): an integer of low..high-1
randint(rng, low, high) == low + (Variate(rng, 0) * (high - low)) \div RandRes

(***************************************************************************)
(* SpikeGenerator (src/bci_logger/spike_generator.py).                     *)
(* An operator that draws from a stream returns [ok, val, rng]: rng is the *)
(* stream after the call; ok = FALSE stands for a raised exception, err    *)
(* its type.                                                               *)
(***************************************************************************)
Dt == 1
RefractoryPeriod == 2
IntraburstInterval == 5

Ok(val, rng) == [ok |-> TRUE, val |-> val, rng |-> rng]
Raise(err, rng) == [ok |-> FALSE, err |-> err, rng |-> rng]

\* one Bernoulli trial of probability rate * dt against the variate k ahead
\* (rate in Hz, dt in ms: rate * dt / 1000)
Fires(rng, k, rate, dt) == Variate(rng, k) * 1000 < rate * dt * RandRes

RECURSIVE WhereSpikes(_, _, _, _, _)
\* np.where(spikes)[0] * dt over bins k .. n_bins-1
WhereSpikes(rng, rate, dt, k, n_bins) ==
    IF k >= n_bins THEN <<>>
    ELSE (IF Fires(rng, k, rate, dt) THEN <<k * dt>> ELSE <<>>)
         \o WhereSpikes(rng, rate, dt, k + 1, n_bins)

\* the bins counted by rounding duration / dt up past the last whole bin
poisson_spikes_extra_bin(rng, rate, duration, dt) ==
    LET n_bins == Trunc(duration, dt) + 1
    IN  IF n_bins < 0
        THEN Raise("ValueError", rng)
        ELSE Ok(WhereSpikes(rng, rate, dt, 0, n_bins), Advance(rng, n_bins))

poisson_spikes(rng, rate, duration, dt) ==
    LET n_bins == Trunc(duration, dt)
    IN  IF n_bins < 0
        THEN Raise("ValueError", rng)   \* rng.random(n) with n < 0
        ELSE Ok(WhereSpikes(rng, rate, dt, 0, n_bins), Advance(rng, n_bins))

RECURSIVE RefractoryLoop(_, _, _, _, _, _, _, _)
RefractoryLoop(rng, rate, duration, refractory_period, dt, t, last_spike, spike_times) ==
    IF ~(t < duration) THEN Ok(spike_times, rng)
    ELSE IF t - last_spike >= refractory_period
         THEN IF Fires(rng, 0, rate, dt)
              THEN RefractoryLoop(Advance(rng, 1), rate, duration, refractory_period,
                                  dt, t + dt, t, Append(spike_times, t))
              ELSE RefractoryLoop(Advance(rng, 1), rate, duration, refractory_period,
                                  dt, t + dt, last_spike, spike_times)
         ELSE RefractoryLoop(rng, rate, duration, refractory_period,
                             dt, t + dt, last_spike, spike_times)

\* the sweep with every step eligible, the refractory period never looked at
refractory_spikes_no_period(rng, rate, duration, refractory_period, dt) ==
    RefractoryLoop(rng, rate, duration, 0, dt, 0, 0, <<>>)

refractory_spikes(rng, rate, duration, refractory_period, dt) ==
    RefractoryLoop(rng, rate, duration, refractory_period, dt, 0, -refractory_period, <<>>)

\* the list as it was filled, burst after burst
insertion_order(s) == s

\* Python's sorted() on a list of numbers
sorted(s) == SortSeq(s, LAMBDA a, b : a < b)

RECURSIVE BurstOfFromOne(_, _, _, _, _)
\* the burst counted from i + 1: its first spike one interval after the onset
BurstOfFromOne(burst_start, i, spikes_per_burst, duration, intraburst_interval) ==
    IF i >= spikes_per_burst THEN <<>>
    ELSE LET spike_time == burst_start + (i + 1) * intraburst_interval
         IN  (IF spike_time < duration THEN <<spike_time>> ELSE <<>>)
             \o BurstOfFromOne(burst_start, i + 1, spikes_per_burst, duration,
                               intraburst_interval)

RECURSIVE BurstOf(_, _, _, _, _)
\* the spikes i .. spikes_per_burst-1 of the burst starting at burst_start
BurstOf(burst_start, i, spikes_per_burst, duration, intraburst_interval) ==
    IF i >= spikes_per_burst THEN <<>>
    ELSE LET spike_time == burst_start + i * intraburst_interval
         IN  (IF spike_time < duration THEN <<spike_time>> ELSE <<>>)
             \o BurstOf(burst_start, i + 1, spikes_per_burst, duration, intraburst_interval)

RECURSIVE Bursts(_, _, _, _)
Bursts(burst_times, spikes_per_burst, duration, intraburst_interval) ==
    IF burst_times = <<>> THEN <<>>
    ELSE BurstOf(Head(burst_times), 0, spikes_per_burst, duration, intraburst_interval)
         \o Bursts(Tail(burst_times), spikes_per_burst, duration, intraburst_interval)

burst_spikes(rng, burst_rate, spikes_per_burst, duration, intraburst_interval, dt) ==
    Bind(poisson_spikes(rng, burst_rate, duration, dt),
         LAMBDA burst_times :
            IF ~burst_times.ok THEN burst_times
            ELSE Ok(sorted(Bursts(burst_times.val, spikes_per_burst, duration,
                                  intraburst_interval)),
                    burst_times.rng))

\* kwargs[name] if given, else the parameter's default
Kw(kwargs, name, default) == IF name \in DOMAIN kwargs THEN kwargs[name] ELSE default

\* the count over the duration in ms, not brought to spikes per second
FiringRatePerMs(count, duration) ==
    IF duration > 0 THEN [num |-> count, den |-> duration]
    ELSE [num |-> 0, den |-> 1]

\* the firing_rate field: len(spike_times) / duration per second, as a fraction
FiringRate(count, duration) ==
    IF duration > 0 THEN [num |-> count * 1000, den |-> duration]
    ELSE [num |-> 0, den |-> 1]

\* the mode is found unknown only after a variate has been drawn
UnknownModeAfterDraw(rng) == Raise("ValueError", Advance(rng, 1))

\* the else branch of the dispatch on mode
UnknownMode(rng) == Raise("ValueError", rng)

generate_spike_train(rng, neuron_id, rate, duration, mode, kwargs) ==
    Bind(IF mode = "poisson"
         THEN IF DOMAIN kwargs \subseteq {"dt"}
              THEN poisson_spikes(rng, rate, duration, Kw(kwargs, "dt", Dt))
              ELSE Raise("TypeError", rng)
         ELSE IF mode = "refractory"
         THEN IF DOMAIN kwargs \subseteq {"refractory_period", "dt"}
              THEN refractory_spikes(rng, rate, duration,
                                     Kw(kwargs, "refractory_period", RefractoryPeriod),
                                     Kw(kwargs, "dt", Dt))
              ELSE Raise("TypeError", rng)
         ELSE IF mode = "burst"
         THEN IF /\ "spikes_per_burst" \in DOMAIN kwargs
                 /\ DOMAIN kwargs \subseteq {"spikes_per_burst", "intraburst_interval", "dt"}
              THEN burst_spikes(rng, rate, kwargs["spikes_per_burst"], duration,
                                Kw(kwargs, "intraburst_interval", IntraburstInterval),
                                Kw(kwargs, "dt", Dt))
              ELSE Raise("TypeError", rng)  \* spikes_per_burst has no default
         ELSE UnknownMode(rng),
         LAMBDA spike_times :
            IF ~spike_times.ok THEN spike_times
            ELSE Ok([neuron_id   |-> neuron_id,
                     spike_times |-> spike_times.val,
                     spike_count |-> Len(spike_times.val),
                     duration    |-> duration,
                     mode        |-> mode,
                     firing_rate |-> FiringRate(Len(spike_times.val), duration),
                     parameters  |-> kwargs],
                    spike_times.rng))

RECURSIVE PopulationLoop(_, _, _, _, _, _, _)
PopulationLoop(rng, i, n_neurons, rate_range, duration, mode, population_data) ==
    IF i >= n_neurons THEN Ok(population_data, rng)
    ELSE Bind(generate_spike_train(Advance(rng, 1), i,
                                   uniform(rng, rate_range[1], rate_range[2]),
                                   duration, mode, <<>>),
              LAMBDA spike_train :
                 IF ~spike_train.ok THEN spike_train
                 ELSE PopulationLoop(spike_train.rng, i + 1, n_neurons, rate_range,
                                     duration, mode,
                                     Append(population_data, spike_train.val)))

generate_population(rng, n_neurons, rate_range, duration, mode) ==
    PopulationLoop(rng, 0, n_neurons, rate_range, duration, mode, <<>>)

(***************************************************************************)
(* EEGGenerator (src/bci_logger/eeg_generator.py).                         *)
(* A sample of a signal is kept as the term that determines it: the        *)
(* sinusoid components drawn for each band, the band's amplitude, the      *)
(* sample index and the noise variate.  Frequencies are in tenths of Hz,   *)
(* component weights in hundredths, band weights in tenths.                *)
(***************************************************************************)
SamplingRate == 250
NComponents == 3

BandNames == <<"delta", "theta", "alpha", "beta", "gamma">>

BANDS ==
    [delta |-> <<5, 40>>, theta |-> <<40, 80>>, alpha |-> <<80, 130>>,
     beta |-> <<130, 300>>, gamma |-> <<300, 1000>>]

\* int(duration * sampling_rate)
NSamples(duration, sampling_rate) == Trunc(duration * sampling_rate, 1000)

\* rng.uniform(low, high, n): n variates starting k draws ahead
UniformN(rng, k, low, high, n) ==
    [j \in 1 .. n |-> uniform(Advance(rng, k + j - 1), low, high)]

generate_band(rng, band_name, duration, amplitude, sampling_rate) ==
    IF band_name \notin DOMAIN BANDS THEN Raise("ValueError", rng)
    ELSE LET freq_min    == BANDS[band_name][1]
             freq_max    == BANDS[band_name][2]
             n_samples   == NSamples(duration, sampling_rate)
             frequencies == UniformN(rng, 0, freq_min, freq_max, NComponents)
             phases      == [j \in 1 .. NComponents |-> Variate(rng, NComponents + j - 1)]
             raw         == UniformN(rng, 2 * NComponents, 50, 100, NComponents)
             weights     == [j \in 1 .. NComponents |->
                                [num |-> raw[j], den |-> SumSeq(raw)]]
             after       == Advance(rng, 3 * NComponents)
         IN  IF n_samples < 0 THEN Raise("ValueError", after)   \* np.zeros(n), n < 0
             ELSE Ok([k \in 1 .. n_samples |->
                         [band |-> band_name, amplitude |-> amplitude, t |-> k - 1,
                          frequencies |-> frequencies, phases |-> phases,
                          weights |-> weights]],
                     after)

\* band_weights = None stands for the omitted argument
DefaultBandWeights == [j \in 1 .. Len(BandNames) |-> <<BandNames[j], 10>>]

\* the weights the mix uses: each input weight over the sum of the input weights
NormalizedWeights(band_weights) ==
    LET total_weight == SumSeq([j \in 1 .. Len(band_weights) |-> band_weights[j][2]])
    IN  [j \in 1 .. Len(band_weights) |->
            <<band_weights[j][1], [num |-> band_weights[j][2], den |-> total_weight]>>]

RECURSIVE BandLoop(_, _, _, _, _)
\* the loop over the normalized band_weights.items(): the band signals so far
BandLoop(rng, items, duration, sampling_rate, band_signals) ==
    IF items = <<>> THEN Ok(band_signals, rng)
    ELSE LET band_name == Head(items)[1]
             weight    == Head(items)[2]
         IN  IF weight.num * weight.den > 0
             THEN Bind(generate_band(rng, band_name, duration, weight, sampling_rate),
                       LAMBDA band_signal :
                          IF ~band_signal.ok THEN band_signal
                          ELSE BandLoop(band_signal.rng, Tail(items), duration,
                                        sampling_rate,
                                        Append(band_signals, band_signal.val)))
             ELSE BandLoop(rng, Tail(items), duration, sampling_rate, band_signals)

generate_mixed_signal(rng, duration, band_weights_arg, noise_level, sampling_rate) ==
    LET band_weights == IF band_weights_arg = "None" THEN DefaultBandWeights
                        ELSE band_weights_arg
        total_weight == SumSeq([j \in 1 .. Len(band_weights) |-> band_weights[j][2]])
        n_samples    == NSamples(duration, sampling_rate)
    IN  \* v / total_weight is evaluated once per item: an empty dict divides nothing
        IF band_weights # <<>> /\ total_weight = 0 THEN Raise("ZeroDivisionError", rng)
        ELSE IF n_samples < 0 THEN Raise("ValueError", rng)     \* np.zeros(n), n < 0
        ELSE Bind(BandLoop(rng, NormalizedWeights(band_weights), duration,
                           sampling_rate, <<>>),
                  LAMBDA bands :
                     IF ~bands.ok THEN bands
                     ELSE Ok([k \in 1 .. n_samples |->
                                 [bands |-> [j \in 1 .. Len(bands.val) |-> bands.val[j][k]],
                                  noise |-> IF noise_level > 0
                                            THEN <<noise_level, Variate(bands.rng, k - 1)>>
                                            ELSE <<>>]],
                             IF noise_level > 0 THEN Advance(bands.rng, n_samples)
                             ELSE bands.rng))

state_profiles ==
    [relaxed |-> << <<"alpha", 30>>, <<"theta", 10>>, <<"beta", 5>>,
                    <<"delta", 5>>, <<"gamma", 2>> >>,
     focused |-> << <<"beta", 30>>, <<"gamma", 20>>, <<"alpha", 5>>,
                    <<"theta", 3>>, <<"delta", 2>> >>,
     drowsy  |-> << <<"delta", 30>>, <<"theta", 20>>, <<"alpha", 5>>,
                    <<"beta", 2>>, <<"gamma", 1>> >>,
     active  |-> << <<"beta", 20>>, <<"gamma", 25>>, <<"alpha", 10>>,
                    <<"theta", 5>>, <<"delta", 3>> >>]

MentalStates == DOMAIN state_profiles

generate_mental_state(rng, state, duration, sampling_rate) ==
    IF state \notin DOMAIN state_profiles THEN Raise("ValueError", rng)
    ELSE generate_mixed_signal(rng, duration, state_profiles[state], 2, sampling_rate)

\* mean_amplitude and peak_amplitude are functions of signal and are not kept;
\* computing the peak of an empty signal raises
generate_channel_data(rng, channel_name, duration, state, sampling_rate) ==
    Bind(generate_mental_state(rng, state, duration, sampling_rate),
         LAMBDA signal :
            IF ~signal.ok THEN signal
            ELSE IF Len(signal.val) = 0
            THEN Raise("ValueError", signal.rng)    \* np.max of an empty array
            ELSE Ok([channel_name  |-> channel_name,
                     signal        |-> signal.val,
                     time          |-> [k \in 1 .. Len(signal.val) |->
                                           [num |-> k - 1, den |-> sampling_rate]],
                     sampling_rate |-> sampling_rate,
                     duration      |-> duration,
                     n_samples     |-> Len(signal.val),
                     state         |-> state],
                    signal.rng))

RECURSIVE MontageLoop(_, _, _, _, _, _)
MontageLoop(rng, channel_names, duration, state, sampling_rate, montage_data) ==
    IF channel_names = <<>> THEN Ok(montage_data, rng)
    ELSE Bind(generate_channel_data(rng, Head(channel_names), duration, state,
                                    sampling_rate),
              LAMBDA channel_data :
                 IF ~channel_data.ok THEN channel_data
                 ELSE MontageLoop(channel_data.rng, Tail(channel_names), duration, state,
                                  sampling_rate, Append(montage_data, channel_data.val)))

generate_montage(rng, channel_names, duration, state, sampling_rate) ==
    MontageLoop(rng, channel_names, duration, state, sampling_rate, <<>>)

(***************************************************************************)
(* BrainModel (src/bci_logger/brain_model.py).                             *)
(* An operation on a BrainModel returns the model after the call (self),   *)
(* and either the value returned (ok) or the exception raised.             *)
(***************************************************************************)
BrainModel(n_neurons, eeg_channels, sampling_rate, seed) ==
    [n_neurons        |-> n_neurons,
     sampling_rate    |-> sampling_rate,
     seed             |-> seed,
     eeg_channels     |-> eeg_channels,
     spike_gen        |-> RandomState(seed),
     eeg_gen          |-> RandomState(seed),
     current_state    |-> "active",
     activity_history |-> <<>>]

\* the entry put in front of the history instead of at its end
AppendHistoryFront(activity_history, entry) == <<entry>> \o activity_history

AppendHistory(activity_history, entry) == Append(activity_history, entry)

\* the call of simulate_activity once the spike trains are there
SimulateEEG(self, duration, state, spike_data) ==
    Bind(generate_montage(self.eeg_gen, self.eeg_channels, duration, state,
                          self.sampling_rate),
         LAMBDA eeg_data :
            IF ~eeg_data.ok
            THEN [self |-> [self EXCEPT !.eeg_gen = eeg_data.rng],
                  ok |-> FALSE, err |-> eeg_data.err]
            ELSE [self |-> [self EXCEPT
                               !.eeg_gen = eeg_data.rng,
                               !.activity_history =
                                   AppendHistory(@,
                                       [duration    |-> duration,
                                        state       |-> state,
                                        spike_count |->
                                            SumSeq([j \in 1 .. Len(spike_data) |->
                                                       spike_data[j].spike_count])])],
                  ok   |-> TRUE,
                  val  |-> [duration      |-> duration,
                            state         |-> state,
                            spike_trains  |-> spike_data,
                            eeg_signals   |-> eeg_data.val,
                            n_neurons     |-> self.n_neurons,
                            n_channels    |-> Len(self.eeg_channels),
                            sampling_rate |-> self.sampling_rate,
                            timestamp     |-> "None"]])

simulate_activity(self, duration, state, spike_rate_range) ==
    Bind(generate_population(self.spike_gen, self.n_neurons, spike_rate_range,
                             duration, "poisson"),
         LAMBDA spike_data :
            IF ~spike_data.ok
            THEN [self |-> [self EXCEPT !.current_state = state,
                                        !.spike_gen = spike_data.rng],
                  ok |-> FALSE, err |-> spike_data.err]
            ELSE SimulateEEG([self EXCEPT !.current_state = state,
                                          !.spike_gen = spike_data.rng],
                             duration, state, spike_data.val))

\* the modifier rounded toward zero, as int((character_wisdom - 10) / 2) would
WisdomModifierTruncated(character_wisdom) == Trunc(character_wisdom - 10, 2)

\* (character_wisdom - 10) // 2: Python's // rounds toward minus infinity
WisdomModifier(character_wisdom) == (character_wisdom - 10) \div 2

\* success only above the difficulty
IsSuccessStrict(intuition_score, difficulty) == intuition_score > difficulty

IsSuccess(intuition_score, difficulty) == intuition_score >= difficulty

\* the failure threshold made inclusive: a score of difficulty - 5 is drowsy
ClassifySymmetric(intuition_score, difficulty) ==
    IF intuition_score >= difficulty
    THEN IF intuition_score >= difficulty + 5
         THEN [state |-> "focused", spike_rate_range |-> <<30, 60>>]
         ELSE [state |-> "active", spike_rate_range |-> <<20, 45>>]
    ELSE IF intuition_score <= difficulty - 5
         THEN [state |-> "drowsy", spike_rate_range |-> <<5, 20>>]
         ELSE [state |-> "relaxed", spike_rate_range |-> <<10, 30>>]

\* the brain state and spike-rate range chosen for a score against a difficulty
Classify(intuition_score, difficulty) ==
    IF IsSuccess(intuition_score, difficulty)
    THEN IF intuition_score >= difficulty + 5
         THEN [state |-> "focused", spike_rate_range |-> <<30, 60>>]
         ELSE [state |-> "active", spike_rate_range |-> <<20, 45>>]
    ELSE IF intuition_score < difficulty - 5
         THEN [state |-> "drowsy", spike_rate_range |-> <<5, 20>>]
         ELSE [state |-> "relaxed", spike_rate_range |-> <<10, 30>>]

IntuitionData(base_roll, wisdom_mod, intuition_score, difficulty, success, character_wisdom) ==
    [d20_roll         |-> base_roll,
     wisdom_modifier  |-> wisdom_mod,
     total_score      |-> intuition_score,
     difficulty_class |-> difficulty,
     success          |-> success,
     character_wisdom |-> character_wisdom]

\* np is the process-wide np.random stream, from which the d20 roll is drawn;
\* sim is the simulate_activity call made
generate_intuition_signal(self, np, difficulty, character_wisdom, duration) ==
    LET wisdom_mod      == WisdomModifier(character_wisdom)
        base_roll       == randint(np, 1, 21)
        intuition_score == base_roll + wisdom_mod
        success         == IsSuccess(intuition_score, difficulty)
        chosen          == Classify(intuition_score, difficulty)
        sim             == [duration |-> duration, state |-> chosen.state,
                            spike_rate_range |-> chosen.spike_rate_range]
    IN  Bind(simulate_activity(self, duration, chosen.state, chosen.spike_rate_range),
             LAMBDA activity :
                IF ~activity.ok
                THEN [self |-> activity.self, np |-> Advance(np, 1), sim |-> sim,
                      ok |-> FALSE, err |-> activity.err]
                ELSE [self |-> activity.self, np |-> Advance(np, 1), sim |-> sim,
                      ok   |-> TRUE,
                      val  |-> activity.val @@
                               [intuition_data |->
                                   IntuitionData(base_roll, wisdom_mod, intuition_score,
                                                 difficulty, success, character_wisdom)]])

\* the set of the states of the history entries
HistoryStates(activity_history) ==
    {activity_history[j].state : j \in 1 .. Len(activity_history)}

\* every entry counted under every state
OfAnyState(activity_history, state) == activity_history

\* the entries of the history that have the state
OfState(activity_history, state) ==
    SelectSeq(activity_history, LAMBDA h : h.state = state)

Durations(activity_history) ==
    [j \in 1 .. Len(activity_history) |-> activity_history[j].duration]

\* Python's a / b on numbers, as a fraction: it raises when b is 0
Divide(a, b) ==
    IF b = 0 THEN [ok |-> FALSE, err |-> "ZeroDivisionError"]
    ELSE [ok |-> TRUE, val |-> [num |-> a, den |-> b]]

\* the quotient taken whatever the total duration
AverageFiringRateUnguarded(total_spikes, total_duration) ==
    Divide(total_spikes * 1000, total_duration)

\* total_spikes / total_duration if total_duration > 0 else 0, per second
AverageFiringRate(total_spikes, total_duration) ==
    IF total_duration > 0 THEN Divide(total_spikes * 1000, total_duration)
    ELSE [ok |-> TRUE, val |-> [num |-> 0, den |-> 1]]

\* returns [ok, val] or, for a raised exception, [ok, err]
get_summary_stats(self) ==
    IF self.activity_history = <<>>
    THEN [ok |-> TRUE,
          val |-> [total_simulations |-> 0, total_duration |-> 0, states |-> <<>>]]
    ELSE LET total_duration == SumSeq(Durations(self.activity_history))
             total_spikes   == SumSeq([j \in 1 .. Len(self.activity_history) |->
                                          self.activity_history[j].spike_count])
             average        == AverageFiringRate(total_spikes, total_duration)
         IN  IF ~average.ok THEN [ok |-> FALSE, err |-> average.err]
             ELSE [ok  |-> TRUE,
                   val |->
                     [total_simulations    |-> Len(self.activity_history),
                      total_duration       |-> total_duration,
                      total_spikes         |-> total_spikes,
                      average_firing_rate  |-> average.val,
                      states               |->
                          [st \in HistoryStates(self.activity_history) |->
                              [count    |-> Len(OfState(self.activity_history, st)),
                               duration |-> SumSeq(Durations(
                                   OfState(self.activity_history, st)))]],
                      n_neurons            |-> self.n_neurons,
                      n_channels           |-> Len(self.eeg_channels)]]

(***************************************************************************)
(* IntuitionRollAPI (src/bci_logger/api_hooks.py).                         *)
(* A callback is [id, raises]: raises tells whether calling it raises an   *)
(* Exception.  A method returns, besides its result, the events of the     *)
(* call in the order they happened: the entry into intuition_check, the   *)
(* callbacks invoked, the errors printed, the signal generated (which      *)
(* holds the d20 roll), the entry logged and the return.                   *)
(***************************************************************************)
IntuitionRollAPI(brain_model, enable_logging) ==
    [brain_model    |-> brain_model,
     enable_logging |-> enable_logging,
     log_entries    |-> <<>>,       \* json_logger.log_entries
     callbacks      |-> [pre_roll |-> <<>>, post_roll |-> <<>>,
                         critical_success |-> <<>>, critical_failure |-> <<>>]]

\* an unknown event is given a list of its own
register_callback_any_event(self, event, callback) ==
    [self |-> [self EXCEPT !.callbacks =
                  IF event \in DOMAIN self.callbacks
                  THEN [self.callbacks EXCEPT ![event] = Append(@, callback)]
                  ELSE self.callbacks @@ (event :> <<callback>>)],
     ok |-> TRUE, val |-> "None"]

register_callback(self, event, callback) ==
    IF event \notin DOMAIN self.callbacks
    THEN [self |-> self, ok |-> FALSE, err |-> "ValueError"]
    ELSE [self |-> [self EXCEPT !.callbacks[event] = Append(@, callback)],
          ok |-> TRUE, val |-> "None"]

Invoked(event, callback) == [kind |-> "callback", event |-> event, id |-> callback.id]
Printed(event, callback) == [kind |-> "print", event |-> event, id |-> callback.id]

RECURSIVE TriggerLoopUnprotected(_, _, _)
\* the loop without the try: the Exception of a callback leaves the loop
TriggerLoopUnprotected(callbacks, event, events) ==
    IF callbacks = <<>> THEN [ok |-> TRUE, events |-> events]
    ELSE LET callback == Head(callbacks)
         IN  IF callback.raises
             THEN [ok |-> FALSE, err |-> "Exception",
                   events |-> Append(events, Invoked(event, callback))]
             ELSE TriggerLoopUnprotected(Tail(callbacks), event,
                                         Append(events, Invoked(event, callback)))

RECURSIVE TriggerLoop(_, _, _)
\* the loop over the callbacks of the event: each is called, and the
\* Exception of one that raises is caught and printed
TriggerLoop(callbacks, event, events) ==
    IF callbacks = <<>> THEN [ok |-> TRUE, events |-> events]
    ELSE LET callback == Head(callbacks)
         IN  IF callback.raises
             THEN TriggerLoop(Tail(callbacks), event,
                              events \o <<Invoked(event, callback),
                                          Printed(event, callback)>>)
             ELSE TriggerLoop(Tail(callbacks), event,
                              Append(events, Invoked(event, callback)))

\* _trigger_callbacks: self.callbacks.get(event, []) called in order
trigger_callbacks(self, event, events) ==
    TriggerLoop(Kw(self.callbacks, event, <<>>), event, events)

\* a natural 20 is not taken for critical, only a natural 1
CriticalEventNoSuccess(d20_roll) ==
    IF d20_roll = 1 THEN "critical_failure" ELSE "None"

\* the event of the critical results: if d20_roll == 20 ... elif d20_roll == 1
CriticalEvent(d20_roll) ==
    IF d20_roll = 20 THEN "critical_success"
    ELSE IF d20_roll = 1 THEN "critical_failure"
    ELSE "None"

\* what intuition_check returns or raises: self and np after the call, and the
\* events of the call
CheckRaised(self, np, err, events) ==
    [self |-> self, np |-> np, ok |-> FALSE, err |-> err, events |-> events]

\* the entry logged first, the post_roll callbacks called after it
FinishCheckLogFirst(self, np, result, events) ==
    LET log_first == IF self.enable_logging
                     THEN Append(events, [kind |-> "log"]) ELSE events
        post      == trigger_callbacks(self, "post_roll", log_first)
    IN  IF ~post.ok THEN CheckRaised(self, np, post.err, post.events)
        ELSE [self |-> IF self.enable_logging
                       THEN [self EXCEPT !.log_entries =
                                Append(@, result @@ [timestamp |-> "now"])]
                       ELSE self,
              np |-> np, ok |-> TRUE, val |-> result,
              events |-> Append(post.events, [kind |-> "return", result |-> result])]

\* intuition_check from the post_roll callbacks on: the callbacks, the entry
\* logged when logging is enabled, the result returned
FinishCheck(self, np, result, events) ==
    LET post == trigger_callbacks(self, "post_roll", events)
    IN  IF ~post.ok THEN CheckRaised(self, np, post.err, post.events)
        ELSE IF self.enable_logging
        THEN [self |-> [self EXCEPT !.log_entries =
                           Append(@, result @@ [timestamp |-> "now"])],
              np |-> np, ok |-> TRUE, val |-> result,
              events |-> post.events \o <<[kind |-> "log"], [kind |-> "return", result |-> result]>>]
        ELSE [self |-> self, np |-> np, ok |-> TRUE, val |-> result,
              events |-> Append(post.events, [kind |-> "return", result |-> result])]

\* the number of spike trains instead of the number of their spikes
NumberOfTrains(spike_trains) == Len(spike_trains)

\* sum(s["spike_count"] for s in neural_data["spike_trains"])
TotalSpikes(spike_trains) ==
    SumSeq([j \in 1 .. Len(spike_trains) |-> spike_trains[j].spike_count])

\* intuition_check once the signal is generated: the result built, the
\* callbacks of a critical roll called
BuildResult(self, np, neural_data, events, character_name, context, duration) ==
    LET intuition_result == neural_data.intuition_data
        result ==
            [character_name  |-> character_name,
             intuition_check |-> intuition_result,
             context         |-> context,
             neural_summary  |->
                 [state        |-> neural_data.state,
                  n_neurons    |-> neural_data.n_neurons,
                  total_spikes |-> TotalSpikes(neural_data.spike_trains),
                  duration     |-> duration]]
        generated ==
            Append(events, [kind |-> "signal",
                            d20_roll |-> intuition_result.d20_roll,
                            n_spike_trains |-> Len(neural_data.spike_trains),
                            n_eeg_signals |-> Len(neural_data.eeg_signals)])
        critical == IF CriticalEvent(intuition_result.d20_roll) = "None"
                    THEN [ok |-> TRUE, events |-> generated]
                    ELSE trigger_callbacks(self,
                                           CriticalEvent(intuition_result.d20_roll),
                                           generated)
    IN  IF ~critical.ok THEN CheckRaised(self, np, critical.err, critical.events)
        ELSE FinishCheck(self, np, result, critical.events)

\* the first event marks the entry into the call
intuition_check(self, np, character_name, wisdom, difficulty, context, duration) ==
    LET pre == trigger_callbacks(self, "pre_roll",
                                 <<[kind |-> "intuition_check",
                                    character_name |-> character_name]>>)
    IN  IF ~pre.ok THEN CheckRaised(self, np, pre.err, pre.events)
        ELSE Bind(generate_intuition_signal(self.brain_model, np, difficulty, wisdom,
                                            duration),
                  LAMBDA neural_data :
                     IF ~neural_data.ok
                     THEN CheckRaised([self EXCEPT !.brain_model = neural_data.self],
                                      neural_data.np, neural_data.err, pre.events)
                     ELSE BuildResult([self EXCEPT !.brain_model = neural_data.self],
                                      neural_data.np, neural_data.val, pre.events,
                                      character_name, context, duration))

RECURSIVE BatchLoop(_, _, _, _, _)
\* the loop over checks: check.get(name, default) for each parameter
BatchLoop(self, np, checks, results, events) ==
    IF checks = <<>>
    THEN [self |-> self, np |-> np, ok |-> TRUE, val |-> results, events |-> events]
    ELSE Bind(intuition_check(self, np,
                              Kw(Head(checks), "character_name", "Unknown"),
                              Kw(Head(checks), "wisdom", 10),
                              Kw(Head(checks), "difficulty", 10),
                              Kw(Head(checks), "context", "None"),
                              Kw(Head(checks), "duration", 1000)),
              LAMBDA result :
                 IF ~result.ok
                 THEN CheckRaised(result.self, result.np, result.err,
                                  events \o result.events)
                 ELSE BatchLoop(result.self, result.np, Tail(checks),
                                Append(results, result.val), events \o result.events))

batch_intuition_checks(self, np, checks) == BatchLoop(self, np, checks, <<>>, <<>>)

\* the entries counted are the failed checks
CountFailures(entries) ==
    Len(SelectSeq(entries, LAMBDA e : ~e.intuition_check.success))

CountSuccesses(entries) ==
    Len(SelectSeq(entries, LAMBDA e : e.intuition_check.success))

CountRolls(entries, d20_roll) ==
    Len(SelectSeq(entries, LAMBDA e : e.intuition_check.d20_roll = d20_roll))

\* returns [ok, val] or, for a raised exception, [ok, err]; rates and averages
\* are fractions
get_statistics(self) ==
    IF ~self.enable_logging \/ self.log_entries = <<>>
    THEN [ok  |-> TRUE,
          val |-> [total_checks |-> 0,
                   success_rate |-> [num |-> 0, den |-> 1],
                   critical_success_rate |-> [num |-> 0, den |-> 1],
                   critical_failure_rate |-> [num |-> 0, den |-> 1]]]
    ELSE LET entries   == self.log_entries
             total     == Len(entries)
             successes == CountSuccesses(entries)
             nat_20s   == CountRolls(entries, 20)
             nat_1s    == CountRolls(entries, 1)
             avg_roll  == Divide(SumSeq([j \in 1 .. total |->
                                            entries[j].intuition_check.d20_roll]),
                                 total)
             avg_total == Divide(SumSeq([j \in 1 .. total |->
                                            entries[j].intuition_check.total_score]),
                                 total)
         IN  IF ~avg_roll.ok THEN [ok |-> FALSE, err |-> avg_roll.err]
             ELSE [ok  |-> TRUE,
                   val |-> [total_checks           |-> total,
                            success_count          |-> successes,
                            success_rate           |-> Divide(successes, total).val,
                            critical_success_count |-> nat_20s,
                            critical_success_rate  |-> Divide(nat_20s, total).val,
                            critical_failure_count |-> nat_1s,
                            critical_failure_rate  |-> Divide(nat_1s, total).val,
                            average_d20_roll       |-> avg_roll.val,
                            average_total_score    |-> avg_total.val]]

(***************************************************************************)
(* The state machine: two BrainModel instances in one process.             *)
(***************************************************************************)
VARIABLES
    brain,      \* brain[i]: the BrainModel instance i
    np_random,  \* the process-wide np.random stream
    calls,      \* calls[i]: the calls made on instance i, in order
    outs,       \* outs[i]: what each of those calls returned or raised
    sim_args,   \* sim_args[i]: the arguments of the last simulate_activity on i
    spike_gen,  \* the stream of a SpikeGenerator used on its own
    eeg_gen,    \* an EEGGenerator used on its own: its sampling_rate and stream
    gen_log,    \* the calls made on those two generators, with their results
    api,        \* an IntuitionRollAPI, with the BrainModel it was given
    api_log     \* the calls made on it, with their results and events

vars == <<brain, np_random, calls, outs, sim_args, spike_gen, eeg_gen, gen_log,
          api, api_log>>
gen_vars == <<spike_gen, eeg_gen, gen_log>>
api_vars == <<api, api_log>>
brain_vars == <<brain, np_random, calls, outs, sim_args>>

Returned(val) == [kind |-> "returned", val |-> val]
Raised(err) == [kind |-> "raised", err |-> err]
Outcome(r) == IF r.ok THEN Returned(r.val) ELSE Raised(r.err)

Last(s) == s[Len(s)]
TotalCalls == SumSeq([j \in 1 .. 2 |-> Len(calls[<<"A", "B">>[j]])])

\* inputs of the calls
SimStates == {"focused", "telepathic"}
RateRanges == {<<5, 50>>, <<50, 5>>, <<300, 900>>}
\* <<duration, state, spike_rate_range>> of the simulate_activity calls: every
\* state and rate range at a duration of one EEG sample, and the durations 0
\* and -1
SimulateInputs ==
    ({4} \X SimStates \X RateRanges) \cup ({-1, 0} \X {"focused"} \X {<<5, 50>>})
Difficulties == {10, 15}
Wisdoms == {10}
CheckDurations == {4}
\* inputs of the checks of CheckSpec
CheckDifficulties == 9 .. 11
CheckWisdoms == 7 .. 12

EEGGenerator(sampling_rate, seed) ==
    [sampling_rate |-> sampling_rate, rng |-> RandomState(seed)]

\* the API, not called yet
ApiIdle ==
    /\ api = IntuitionRollAPI(BrainModel(MaxNeurons, EegChannels, SamplingRate, 1), TRUE)
    /\ api_log = <<>>

\* the two generators used on their own, not called yet
GenIdle ==
    /\ spike_gen = RandomState(1)
    /\ eeg_gen = EEGGenerator(SamplingRate, 1)
    /\ gen_log = <<>>

InitWith(np_seeds, seeds) ==
    /\ GenIdle
    /\ ApiIdle
    /\ \E n \in NeuronCounts, c \in 0 .. Len(EegChannels), sd \in seeds :
          \* both instances are constructed with the same arguments but the
          \* seed; the largest model comes first
          brain = [i \in Instances |->
                      BrainModel(MaxNeurons - n,
                                 SubSeq(EegChannels, 1, Len(EegChannels) - c),
                                 SamplingRate, IF i = "A" THEN 1 ELSE sd)]
    /\ \E g \in np_seeds : np_random = RandomState(g)
    /\ calls = [i \in Instances |-> <<>>]
    /\ outs = [i \in Instances |-> <<>>]
    /\ sim_args = [i \in Instances |-> <<>>]

Init == InitWith({0, 19}, Seeds)

SimulateActivity(i, duration, state, spike_rate_range) ==
    \E r \in {simulate_activity(brain[i], duration, state, spike_rate_range)} :
        /\ brain' = [brain EXCEPT ![i] = r.self]
        /\ calls' = [calls EXCEPT ![i] =
                        Append(@, [op |-> "simulate_activity", duration |-> duration,
                                   state |-> state, spike_rate_range |-> spike_rate_range])]
        /\ outs' = [outs EXCEPT ![i] = Append(@, Outcome(r))]
        /\ sim_args' = [sim_args EXCEPT ![i] =
                           [duration |-> duration, state |-> state,
                            spike_rate_range |-> spike_rate_range]]
        /\ UNCHANGED np_random

GenerateIntuitionSignal(i, difficulty, character_wisdom, duration) ==
    \E r \in {generate_intuition_signal(brain[i], np_random, difficulty,
                                       character_wisdom, duration)} :
        /\ brain' = [brain EXCEPT ![i] = r.self]
        /\ np_random' = r.np
        /\ calls' = [calls EXCEPT ![i] =
                        Append(@, [op |-> "generate_intuition_signal",
                                   difficulty |-> difficulty,
                                   character_wisdom |-> character_wisdom,
                                   duration |-> duration])]
        /\ outs' = [outs EXCEPT ![i] = Append(@, Outcome(r))]
        /\ sim_args' = [sim_args EXCEPT ![i] = r.sim]

GetSummaryStats(i) ==
    /\ calls' = [calls EXCEPT ![i] = Append(@, [op |-> "get_summary_stats"])]
    /\ outs' = [outs EXCEPT ![i] = Append(@, Outcome(get_summary_stats(brain[i])))]
    /\ UNCHANGED <<brain, np_random, sim_args>>

\* the calls of one behaviour are bounded
CallsLeft(max_calls) == TotalCalls < max_calls

Next ==
    \/ \E i \in Instances, in \in SimulateInputs :
          CallsLeft(MaxCalls) /\ SimulateActivity(i, in[1], in[2], in[3])
          /\ UNCHANGED <<gen_vars, api_vars>>
    \/ \E i \in Instances, dc \in Difficulties, w \in Wisdoms, d \in CheckDurations :
          CallsLeft(MaxCalls) /\ GenerateIntuitionSignal(i, dc, w, d)
          /\ UNCHANGED <<gen_vars, api_vars>>
    \/ \E i \in Instances :
          CallsLeft(MaxCalls) /\ GetSummaryStats(i)
          /\ UNCHANGED <<gen_vars, api_vars>>

Spec == Init /\ [][Next]_vars

\* one instance making checks, over every d20 roll and a range of wisdoms and
\* difficulties
CheckInit == InitWith(0 .. NpSeeds - 1, {1})

CheckNext ==
    \E dc \in CheckDifficulties, w \in CheckWisdoms, d \in CheckDurations :
        CallsLeft(MaxChecks) /\ GenerateIntuitionSignal("A", dc, w, d)
        /\ UNCHANGED <<gen_vars, api_vars>>

CheckSpec == CheckInit /\ [][CheckNext]_vars

(***************************************************************************)
(* A SpikeGenerator used on its own: SpikeGenerator() with no seed, whose   *)
(* stream yields any sequence of variates, each either the least or the    *)
(* greatest the resolution has (a trial of probability 0 < p < 1 succeeds  *)
(* on the first and fails on the second).                                  *)
(***************************************************************************)
TapeLevels == {0, RandRes - 1}

\* inputs of the calls: rates in Hz, times in ms
PoissonInputs == {500, 1000} \X {-1, 3, 4} \X {1, 2}
RefractoryInputs == {500, 1000} \X {3, 4} \X {0, 2, 3} \X {1, 2}
BurstInputs == {500} \X {1, 2, 3} \X {4, 5} \X {1, 2, 3} \X {1}
Modes == {"poisson", "refractory", "burst", "telepathic"}
KwargsGiven ==
    << <<>>, [spikes_per_burst |-> 2],
       [spikes_per_burst |-> 2, intraburst_interval |-> 1] >>
NeuronIds == {7}
TrainRates == {500, 1000}
TrainDurations == {3, 4}
PopulationSizes == 0 .. 2
PopulationRanges == {<<5, 50>>, <<500, 1000>>}

BrainIdle ==
    /\ brain = [i \in Instances |-> BrainModel(MaxNeurons, EegChannels, SamplingRate, 1)]
    /\ np_random = RandomState(0)
    /\ calls = [i \in Instances |-> <<>>]
    /\ outs = [i \in Instances |-> <<>>]
    /\ sim_args = [i \in Instances |-> <<>>]

GenInit ==
    /\ BrainIdle
    /\ ApiIdle
    /\ \E tape \in [1 .. TapeLen -> TapeLevels] : spike_gen = Unseeded(tape)
    /\ eeg_gen = EEGGenerator(SamplingRate, 1)
    /\ gen_log = <<>>

\* a call on the generator whose stream was rng, and its result r
Logged(op, args, rng, r) ==
    [op |-> op, args |-> args, rng |-> rng, after |-> r.rng, out |-> Outcome(r)]

PoissonSpikes(rate, duration, dt) ==
    \E r \in {poisson_spikes(spike_gen, rate, duration, dt)} :
        /\ spike_gen' = r.rng
        /\ gen_log' = Append(gen_log,
                            Logged("poisson_spikes",
                                   [rate |-> rate, duration |-> duration, dt |-> dt],
                                   spike_gen, r))
        /\ UNCHANGED eeg_gen

RefractorySpikes(rate, duration, refractory_period, dt) ==
    \E r \in {refractory_spikes(spike_gen, rate, duration, refractory_period, dt)} :
        /\ spike_gen' = r.rng
        /\ gen_log' = Append(gen_log,
                            Logged("refractory_spikes",
                                   [rate |-> rate, duration |-> duration,
                                    refractory_period |-> refractory_period, dt |-> dt],
                                   spike_gen, r))
        /\ UNCHANGED eeg_gen

BurstSpikes(burst_rate, spikes_per_burst, duration, intraburst_interval, dt) ==
    \E r \in {burst_spikes(spike_gen, burst_rate, spikes_per_burst, duration,
                           intraburst_interval, dt)} :
        /\ spike_gen' = r.rng
        /\ gen_log' = Append(gen_log,
                            Logged("burst_spikes",
                                   [burst_rate |-> burst_rate,
                                    spikes_per_burst |-> spikes_per_burst,
                                    duration |-> duration,
                                    intraburst_interval |-> intraburst_interval,
                                    dt |-> dt],
                                   spike_gen, r))
        /\ UNCHANGED eeg_gen

GenerateSpikeTrain(neuron_id, rate, duration, mode, kwargs) ==
    \E r \in {generate_spike_train(spike_gen, neuron_id, rate, duration, mode, kwargs)} :
        /\ spike_gen' = r.rng
        /\ gen_log' = Append(gen_log,
                            Logged("generate_spike_train",
                                   [neuron_id |-> neuron_id, rate |-> rate,
                                    duration |-> duration, mode |-> mode,
                                    kwargs |-> kwargs],
                                   spike_gen, r))
        /\ UNCHANGED eeg_gen

GeneratePopulation(n_neurons, rate_range, duration, mode) ==
    \E r \in {generate_population(spike_gen, n_neurons, rate_range, duration, mode)} :
        /\ spike_gen' = r.rng
        /\ gen_log' = Append(gen_log,
                            Logged("generate_population",
                                   [n_neurons |-> n_neurons, rate_range |-> rate_range,
                                    duration |-> duration, mode |-> mode],
                                   spike_gen, r))
        /\ UNCHANGED eeg_gen

GenCallsLeft(max_calls) == Len(gen_log) < max_calls

GenNext ==
    \/ \E in \in PoissonInputs :
          GenCallsLeft(MaxGenCalls) /\ PoissonSpikes(in[1], in[2], in[3])
          /\ UNCHANGED <<brain_vars, api_vars>>
    \/ \E in \in RefractoryInputs :
          GenCallsLeft(MaxGenCalls) /\ RefractorySpikes(in[1], in[2], in[3], in[4])
          /\ UNCHANGED <<brain_vars, api_vars>>
    \/ \E in \in BurstInputs :
          GenCallsLeft(MaxGenCalls) /\ BurstSpikes(in[1], in[2], in[3], in[4], in[5])
          /\ UNCHANGED <<brain_vars, api_vars>>
    \/ \E id \in NeuronIds, rate \in TrainRates, d \in TrainDurations, mode \in Modes,
          j \in 1 .. Len(KwargsGiven) :
          GenCallsLeft(MaxGenCalls)
          /\ GenerateSpikeTrain(id, rate, d, mode, KwargsGiven[j])
          /\ UNCHANGED <<brain_vars, api_vars>>
    \/ \E n \in PopulationSizes, range \in PopulationRanges, mode \in Modes :
          GenCallsLeft(MaxGenCalls) /\ GeneratePopulation(n, range, 4, mode)
          /\ UNCHANGED <<brain_vars, api_vars>>

GenSpec == GenInit /\ [][GenNext]_vars

(***************************************************************************)
(* An EEGGenerator used on its own.                                        *)
(***************************************************************************)
SamplingRates == {250, 500}
EegDurations == {3, 4, 10}
BandsAsked == {"delta", "theta", "alpha", "beta", "gamma", "omega"}
\* omitted; a weight of zero; a sum of 4.0; a sum of zero; a negative weight
WeightsGiven ==
    <<"None",
      << <<"alpha", 10>>, <<"beta", 0>> >>,
      << <<"alpha", 30>>, <<"theta", 10>> >>,
      << <<"alpha", 0>> >>,
      << <<"alpha", 30>>, <<"beta", -10>> >> >>
NoiseLevels == {0, 1}
StatesAsked == {"relaxed", "focused", "drowsy", "active", "telepathic"}
MontageStates == {"focused", "active"}
ChannelNames == <<"Fp1", "C3">>

EegInit ==
    /\ BrainIdle
    /\ ApiIdle
    /\ spike_gen = RandomState(1)
    /\ \E sr \in SamplingRates, sd \in Seeds : eeg_gen = EEGGenerator(sr, sd)
    /\ gen_log = <<>>

GenerateBand(band_name, duration, amplitude) ==
    \E r \in {generate_band(eeg_gen.rng, band_name, duration, amplitude,
                            eeg_gen.sampling_rate)} :
        /\ eeg_gen' = [eeg_gen EXCEPT !.rng = r.rng]
        /\ gen_log' = Append(gen_log,
                            Logged("generate_band",
                                   [band_name |-> band_name, duration |-> duration],
                                   eeg_gen.rng, r))
        /\ UNCHANGED spike_gen

GenerateMixedSignal(duration, band_weights, noise_level) ==
    \E r \in {generate_mixed_signal(eeg_gen.rng, duration, band_weights, noise_level,
                                    eeg_gen.sampling_rate)} :
        /\ eeg_gen' = [eeg_gen EXCEPT !.rng = r.rng]
        /\ gen_log' = Append(gen_log,
                            Logged("generate_mixed_signal",
                                   [duration |-> duration, band_weights |-> band_weights,
                                    noise_level |-> noise_level],
                                   eeg_gen.rng, r))
        /\ UNCHANGED spike_gen

GenerateMentalState(state, duration) ==
    \E r \in {generate_mental_state(eeg_gen.rng, state, duration,
                                    eeg_gen.sampling_rate)} :
        /\ eeg_gen' = [eeg_gen EXCEPT !.rng = r.rng]
        /\ gen_log' = Append(gen_log,
                            Logged("generate_mental_state",
                                   [state |-> state, duration |-> duration],
                                   eeg_gen.rng, r))
        /\ UNCHANGED spike_gen

GenerateMontage(channel_names, duration, state) ==
    \E r \in {generate_montage(eeg_gen.rng, channel_names, duration, state,
                               eeg_gen.sampling_rate)} :
        /\ eeg_gen' = [eeg_gen EXCEPT !.rng = r.rng]
        /\ gen_log' = Append(gen_log,
                            Logged("generate_montage",
                                   [channel_names |-> channel_names,
                                    duration |-> duration, state |-> state],
                                   eeg_gen.rng, r))
        /\ UNCHANGED spike_gen

EegNext ==
    \/ \E band \in BandsAsked, d \in EegDurations :
          GenCallsLeft(MaxGenCalls) /\ GenerateBand(band, d, [num |-> 1, den |-> 1])
          /\ UNCHANGED <<brain_vars, api_vars>>
    \/ \E d \in EegDurations, j \in 1 .. Len(WeightsGiven), noise \in NoiseLevels :
          GenCallsLeft(MaxGenCalls) /\ GenerateMixedSignal(d, WeightsGiven[j], noise)
          /\ UNCHANGED <<brain_vars, api_vars>>
    \/ \E state \in StatesAsked, d \in EegDurations :
          GenCallsLeft(MaxGenCalls) /\ GenerateMentalState(state, d)
          /\ UNCHANGED <<brain_vars, api_vars>>
    \/ \E n \in 0 .. Len(ChannelNames), d \in EegDurations, state \in MontageStates :
          GenCallsLeft(MaxGenCalls)
          /\ GenerateMontage(SubSeq(ChannelNames, 1, n), d, state)
          /\ UNCHANGED <<brain_vars, api_vars>>

EegSpec == EegInit /\ [][EegNext]_vars

(***************************************************************************)
(* One BrainModel simulating in several states and durations, then asked   *)
(* for its statistics.                                                     *)
(***************************************************************************)
HistStates == {"focused", "relaxed"}
HistDurations == {4, 8}

HistInit == BrainIdle /\ GenIdle /\ ApiIdle

HistNext ==
    \/ \E state \in HistStates, d \in HistDurations :
          CallsLeft(MaxHistCalls) /\ SimulateActivity("A", d, state, <<300, 900>>)
          /\ UNCHANGED <<gen_vars, api_vars>>
    \/ CallsLeft(MaxHistCalls) /\ GetSummaryStats("A")
          /\ UNCHANGED <<gen_vars, api_vars>>

HistSpec == HistInit /\ [][HistNext]_vars

(***************************************************************************)
(* An IntuitionRollAPI over a BrainModel of its own.  It starts after some *)
(* callbacks have been registered: none, or on every event one that raises *)
(* followed by one that does not, or the reverse order on two events.      *)
(***************************************************************************)
Raising == [id |-> "r", raises |-> TRUE]
Quiet == [id |-> "k", raises |-> FALSE]

Registrations ==
    << <<>>,
       << <<"pre_roll", Raising>>, <<"pre_roll", Quiet>>,
          <<"critical_success", Raising>>, <<"critical_success", Quiet>>,
          <<"critical_failure", Raising>>, <<"critical_failure", Quiet>>,
          <<"post_roll", Raising>>, <<"post_roll", Quiet>> >>,
       << <<"post_roll", Quiet>>, <<"post_roll", Raising>>,
          <<"pre_roll", Quiet>>, <<"pre_roll", Raising>> >> >>

RECURSIVE Registered(_, _)
\* self after the register_callback calls of the list
Registered(self, registrations) ==
    IF registrations = <<>> THEN self
    ELSE Registered(register_callback(self, Head(registrations)[1],
                                      Head(registrations)[2]).self,
                    Tail(registrations))

\* seeds of np.random whose first rolls are 1, 11 and 20
ApiNpSeeds == {0, 10, 19}
EventsAsked == {"pre_roll", "on_roll"}
\* the difficulty and duration of the single checks; 3 ms is less than one EEG
\* sample: the signal generation raises
ChecksAsked == {<<10, 4>>, <<15, 4>>, <<10, 3>>}
\* the brain model of the API has no neuron or MaxNeurons of them
ApiNeuronCounts == {0, MaxNeurons}
Ann == [character_name |-> "Ann", wisdom |-> 14, difficulty |-> 10, duration |-> 4]
Bob == [character_name |-> "Bob", difficulty |-> 15, context |-> "door", duration |-> 4]
Cut == [character_name |-> "Cut", duration |-> 3]
Batches == << <<>>, <<Ann, Bob>>, <<Bob, Cut, Ann>> >>

ApiInit ==
    /\ \E j \in 1 .. Len(Registrations), enable_logging \in BOOLEAN,
          n_neurons \in ApiNeuronCounts :
          api = Registered(
                    IntuitionRollAPI(BrainModel(n_neurons, EegChannels, SamplingRate, 1),
                                     enable_logging),
                    Registrations[j])
    /\ api_log = <<>>
    /\ \E g \in ApiNpSeeds : np_random = RandomState(g)
    /\ brain = [i \in Instances |-> BrainModel(MaxNeurons, EegChannels, SamplingRate, 1)]
    /\ calls = [i \in Instances |-> <<>>]
    /\ outs = [i \in Instances |-> <<>>]
    /\ sim_args = [i \in Instances |-> <<>>]
    /\ GenIdle

\* a call on the API, the registry it found, its result and its events
ApiLogged(op, args, r, events) ==
    [op |-> op, args |-> args, callbacks |-> api.callbacks, out |-> Outcome(r),
     events |-> events]

RegisterCallback(event, callback) ==
    \E r \in {register_callback(api, event, callback)} :
        /\ api' = r.self
        /\ api_log' = Append(api_log,
                            ApiLogged("register_callback",
                                      [event |-> event, callback |-> callback], r, <<>>))
        /\ UNCHANGED np_random

IntuitionCheck(character_name, wisdom, difficulty, context, duration) ==
    \E r \in {intuition_check(api, np_random, character_name, wisdom, difficulty,
                              context, duration)} :
        /\ api' = r.self
        /\ np_random' = r.np
        /\ api_log' = Append(api_log,
                            ApiLogged("intuition_check",
                                      [character_name |-> character_name,
                                       wisdom |-> wisdom, difficulty |-> difficulty,
                                       context |-> context, duration |-> duration],
                                      r, r.events))

BatchIntuitionChecks(checks) ==
    \E r \in {batch_intuition_checks(api, np_random, checks)} :
        /\ api' = r.self
        /\ np_random' = r.np
        /\ api_log' = Append(api_log,
                            ApiLogged("batch_intuition_checks", [checks |-> checks],
                                      r, r.events))

GetStatistics ==
    /\ api_log' = Append(api_log,
                        ApiLogged("get_statistics", <<>>, get_statistics(api), <<>>))
    /\ UNCHANGED <<api, np_random>>

ApiCallsLeft(max_calls) == Len(api_log) < max_calls

ApiNext ==
    \/ \E event \in EventsAsked, callback \in {Raising, Quiet} :
          ApiCallsLeft(MaxApiCalls) /\ RegisterCallback(event, callback)
          /\ UNCHANGED <<brain, calls, outs, sim_args, gen_vars>>
    \/ \E asked \in ChecksAsked :
          ApiCallsLeft(MaxApiCalls)
          /\ IntuitionCheck("Ann", 10, asked[1], "None", asked[2])
          /\ UNCHANGED <<brain, calls, outs, sim_args, gen_vars>>
    \/ \E j \in 1 .. Len(Batches) :
          ApiCallsLeft(MaxApiCalls) /\ BatchIntuitionChecks(Batches[j])
          /\ UNCHANGED <<brain, calls, outs, sim_args, gen_vars>>
    \/ ApiCallsLeft(MaxApiCalls) /\ GetStatistics
          /\ UNCHANGED <<brain, calls, outs, sim_args, gen_vars>>

ApiSpec == ApiInit /\ [][ApiNext]_vars

(***************************************************************************)
(* Properties.                                                             *)
(***************************************************************************)
LastCall(i) == Last(calls[i])
Ret(i) == Last(outs[i])

\* instance i has made a call, and its last call is a generate_intuition_signal
\* that returned a snapshot
CheckReturned(i) ==
    /\ calls[i] # <<>>
    /\ LastCall(i).op = "generate_intuition_signal"
    /\ Ret(i).kind = "returned"

\* floor(x / 2), by its defining inequalities
FloorHalf(x) == CHOOSE m \in -(x * x) - 1 .. x * x + 1 : 2 * m <= x /\ x < 2 * m + 2

\* the classification table of the check, on the total score
Expected(total, difficulty) ==
    IF total >= difficulty + 5 THEN <<"focused", <<30, 60>>>>
    ELSE IF total >= difficulty THEN <<"active", <<20, 45>>>>
    ELSE IF total < difficulty - 5 THEN <<"drowsy", <<5, 20>>>>
    ELSE <<"relaxed", <<10, 30>>>>

\* C1: a check that rolled d20_roll for wisdom and difficulty simulates and
\* returns the state and spike-rate range the classification table gives for
\* total = d20_roll + floor((wisdom - 10) / 2), whatever the model's history,
\* random streams and configuration.
C1_Classification ==
    \A i \in Instances :
        CheckReturned(i) =>
            LET total == Ret(i).val.intuition_data.d20_roll
                         + FloorHalf(LastCall(i).character_wisdom - 10)
                want  == Expected(total, LastCall(i).difficulty)
            IN  /\ Ret(i).val.intuition_data.d20_roll \in 1 .. 20
                /\ Ret(i).val.state = want[1]
                /\ sim_args[i].state = want[1]
                /\ sim_args[i].spike_rate_range = want[2]

\* a check that failed by exactly 5 was classified relaxed
C1_Witness ==
    \E i \in Instances :
        /\ CheckReturned(i)
        /\ Ret(i).val.intuition_data.total_score = LastCall(i).difficulty - 5
        /\ Ret(i).val.state = "relaxed"
        /\ sim_args[i].spike_rate_range = <<10, 30>>

\* C2: the wisdom modifier of a check is floor((wisdom - 10) / 2): 0 for
\* wisdom 10, -1 for wisdom 8, and for an odd wisdom below 10 the modifier of
\* the even wisdom one below it.
C2_WisdomModifierFloors ==
    \A i \in Instances :
        CheckReturned(i) =>
            LET w == LastCall(i).character_wisdom
                m == Ret(i).val.intuition_data.wisdom_modifier
            IN  /\ 2 * m <= w - 10
                /\ w - 10 < 2 * m + 2
                /\ (w = 10 => m = 0)
                /\ (w = 8 => m = -1)
                /\ (w < 10 /\ w % 2 = 1 => 2 * m = (w - 1) - 10)

\* a check for wisdom 7 got the modifier -2
C2_Witness ==
    \E i \in Instances :
        /\ CheckReturned(i)
        /\ LastCall(i).character_wisdom = 7
        /\ Ret(i).val.intuition_data.wisdom_modifier = -2

\* C3: the intuition_data of a returned snapshot is well-formed: d20_roll in
\* 1..20, total_score = d20_roll + wisdom_modifier, difficulty_class the
\* difficulty passed in, success exactly when total_score >= difficulty_class.
C3_OutcomeWellFormed ==
    \A i \in Instances :
        CheckReturned(i) =>
            LET o == Ret(i).val.intuition_data
            IN  /\ o.d20_roll \in 1 .. 20
                /\ o.total_score = o.d20_roll + o.wisdom_modifier
                /\ o.difficulty_class = LastCall(i).difficulty
                /\ o.success \in BOOLEAN
                /\ o.success <=> (o.total_score >= o.difficulty_class)

\* a check whose total score equals the difficulty class succeeded
C3_Witness ==
    \E i \in Instances :
        /\ CheckReturned(i)
        /\ Ret(i).val.intuition_data.total_score
               = Ret(i).val.intuition_data.difficulty_class
        /\ Ret(i).val.intuition_data.success

\* C4: the intuition_data of a returned snapshot has a margin field, equal to
\* total_score - difficulty_class.
C4_MarginField ==
    \A i \in Instances :
        CheckReturned(i) =>
            LET o == Ret(i).val.intuition_data
            IN  /\ "margin" \in DOMAIN o
                /\ o.margin = o.total_score - o.difficulty_class

\* C5: two instances constructed with the same arguments and seed that have
\* been driven by the same calls have produced the same outputs.
C5_SameSeedSameOutputs ==
    \A i, j \in Instances :
        /\ brain[i].seed = brain[j].seed
        /\ brain[i].n_neurons = brain[j].n_neurons
        /\ brain[i].eeg_channels = brain[j].eeg_channels
        /\ calls[i] = calls[j]
        => outs[i] = outs[j]

\* one call of a model that is the only user of the np.random stream
SoloCall(self, np, call) ==
    IF call.op = "simulate_activity"
    THEN Bind(simulate_activity(self, call.duration, call.state, call.spike_rate_range),
              LAMBDA r : [self |-> r.self, np |-> np, out |-> Outcome(r)])
    ELSE IF call.op = "generate_intuition_signal"
    THEN Bind(generate_intuition_signal(self, np, call.difficulty,
                                        call.character_wisdom, call.duration),
              LAMBDA r : [self |-> r.self, np |-> r.np, out |-> Outcome(r)])
    ELSE [self |-> self, np |-> np, out |-> Returned(get_summary_stats(self))]

RECURSIVE SoloOuts(_, _, _, _)
\* the outputs of the calls cs made on self with no other instance in the process
SoloOuts(self, np, cs, done) ==
    IF cs = <<>> THEN done
    ELSE Bind(SoloCall(self, np, Head(cs)),
              LAMBDA r : SoloOuts(r.self, r.np, Tail(cs), Append(done, r.out)))

IsPrefix(s, t) == Len(s) <= Len(t) /\ SubSeq(t, 1, Len(s)) = s

SpikeCount(spike_trains) ==
    SumSeq([j \in 1 .. Len(spike_trains) |-> spike_trains[j].spike_count])

\* instance i makes a call in this step
Called(i) == calls'[i] # calls[i]

\* C7: the history after a step has the history before it as a prefix; a call
\* of simulate_activity or generate_intuition_signal that returns appends
\* exactly one entry, {duration, state, spike_count} of the snapshot, at the
\* end; get_summary_stats leaves the history as it is.
C7_HistoryAppendOnly ==
    [][\A i \in Instances :
          /\ IsPrefix(brain[i].activity_history, brain'[i].activity_history)
          /\ Called(i) =>
                LET c == Last(calls'[i])
                    o == Last(outs'[i])
                IN  /\ c.op \in {"simulate_activity", "generate_intuition_signal"}
                       /\ o.kind = "returned"
                       => brain'[i].activity_history
                              = Append(brain[i].activity_history,
                                       [duration    |-> c.duration,
                                        state       |-> o.val.state,
                                        spike_count |-> SpikeCount(o.val.spike_trains)])
                    /\ c.op = "get_summary_stats"
                       => brain'[i].activity_history = brain[i].activity_history
      ]_vars

\* a history of two different entries, the second the one of the snapshot just
\* returned, with spikes in it
C7_Witness ==
    \E i \in Instances :
        /\ Len(brain[i].activity_history) = 2
        /\ brain[i].activity_history[1] # brain[i].activity_history[2]
        /\ Ret(i).kind = "returned"
        /\ brain[i].activity_history[2].state = Ret(i).val.state
        /\ brain[i].activity_history[2].spike_count > 0

\* instance i makes a simulate_activity call with an unknown state in this step
CalledWithUnknownState(i) ==
    /\ Called(i)
    /\ Last(calls'[i]).op = "simulate_activity"
    /\ Last(calls'[i]).state \notin {"relaxed", "focused", "drowsy", "active"}

\* C8: simulate_activity with a state outside the four mental states raises,
\* returns no snapshot and leaves the history as it was.
C8_UnknownStateRejected ==
    [][\A i \in Instances :
          CalledWithUnknownState(i) =>
              /\ Last(outs'[i]).kind = "raised"
              /\ brain'[i].activity_history = brain[i].activity_history
      ]_vars

\* C9: a simulate_activity call that raises for an unknown state leaves the
\* spike generator's stream, the EEG generator's stream and current_state as
\* they were.
C9_RejectedBeforeGeneration ==
    [][\A i \in Instances :
          CalledWithUnknownState(i) /\ Last(outs'[i]).kind = "raised" =>
              /\ brain'[i].spike_gen = brain[i].spike_gen
              /\ brain'[i].eeg_gen = brain[i].eeg_gen
              /\ brain'[i].current_state = brain[i].current_state
      ]_vars

\* a call whose rate range has min > max or whose duration is <= 0
InvalidRange(call) ==
    \/ call.op = "simulate_activity"
       /\ (call.spike_rate_range[1] > call.spike_rate_range[2] \/ call.duration <= 0)
    \/ call.op = "generate_intuition_signal" /\ call.duration <= 0

\* C10: every call with a rate range of min > max or a duration <= 0 raised,
\* and every history entry and every returned spike train has duration > 0.
C10_InvalidRangeRejected ==
    \A i \in Instances :
        /\ \A k \in 1 .. Len(calls[i]) :
              /\ InvalidRange(calls[i][k]) => outs[i][k].kind = "raised"
              /\ outs[i][k].kind = "returned" /\ calls[i][k].op # "get_summary_stats"
                 => \A j \in 1 .. Len(outs[i][k].val.spike_trains) :
                       outs[i][k].val.spike_trains[j].duration > 0
        /\ \A k \in 1 .. Len(brain[i].activity_history) :
              brain[i].activity_history[k].duration > 0

(***************************************************************************)
(* Properties of a SpikeGenerator used on its own.                         *)
(***************************************************************************)
\* the logged calls of the operation
GenCalls(op) == {j \in 1 .. Len(gen_log) : gen_log[j].op = op}

SpikeModes == {"poisson", "refractory", "burst"}

\* C11: generate_spike_train with a mode outside {poisson, refractory, burst}
\* raises an error (a ValueError), so returns no SpikeTrain, and leaves the
\* generator's stream where it was.
C11_UnknownModeRejected ==
    \A j \in GenCalls("generate_spike_train") :
        gen_log[j].args.mode \notin SpikeModes =>
            /\ gen_log[j].out = Raised("ValueError")
            /\ gen_log[j].after = gen_log[j].rng

C11_Witness ==
    \E j \in GenCalls("generate_spike_train") :
        /\ gen_log[j].args.mode = "telepathic"
        /\ gen_log[j].out.kind = "raised"

\* the poisson_spikes calls the property of section 8 speaks of: dt > 0,
\* rate >= 0, rate * dt <= 1 (rate in Hz, dt in ms) and duration > 0
PoissonInDomain(call) ==
    /\ call.op = "poisson_spikes"
    /\ call.args.dt > 0
    /\ call.args.rate >= 0
    /\ call.args.rate * call.args.dt <= 1000
    /\ call.args.duration > 0

\* every returned time is k * dt for a natural k and lies in [0, duration)
OnGridInDuration(times, duration, dt) ==
    \A p \in 1 .. Len(times) :
        /\ times[p] % dt = 0
        /\ 0 <= times[p]
        /\ times[p] < duration

\* C12 as stated: in its domain poisson_spikes returns only times k * dt of
\* [0, duration), and strictly fewer than duration / dt of them.
C12_PoissonStrictlyFewer ==
    \A j \in 1 .. Len(gen_log) :
        PoissonInDomain(gen_log[j]) =>
            /\ gen_log[j].out.kind = "returned"
            /\ OnGridInDuration(gen_log[j].out.val, gen_log[j].args.duration,
                                gen_log[j].args.dt)
            /\ Len(gen_log[j].out.val) * gen_log[j].args.dt < gen_log[j].args.duration

\* C12, amended: in its domain poisson_spikes returns only times k * dt of
\* [0, duration), and at most duration / dt of them (every bin can fire, and
\* does when rate * dt = 1).
C12_PoissonAtMost ==
    \A j \in 1 .. Len(gen_log) :
        PoissonInDomain(gen_log[j]) =>
            /\ gen_log[j].out.kind = "returned"
            /\ OnGridInDuration(gen_log[j].out.val, gen_log[j].args.duration,
                                gen_log[j].args.dt)
            /\ Len(gen_log[j].out.val) * gen_log[j].args.dt <= gen_log[j].args.duration

\* a call in the domain in which every bin fired, duration a multiple of dt
C12_Witness ==
    \E j \in 1 .. Len(gen_log) :
        /\ PoissonInDomain(gen_log[j])
        /\ gen_log[j].out.kind = "returned"
        /\ gen_log[j].args.dt = 2
        /\ gen_log[j].args.rate = 500
        /\ Len(gen_log[j].out.val) * gen_log[j].args.dt = gen_log[j].args.duration

\* C13: for every rate, duration, refractory_period >= 0 and dt > 0 and every
\* outcome of the trials, refractory_spikes returns times of [0, duration) in
\* strictly increasing order, consecutive ones at least refractory_period
\* apart (the first may be 0).
C13_RefractoryGaps ==
    \A j \in GenCalls("refractory_spikes") :
        (gen_log[j].args.refractory_period >= 0 /\ gen_log[j].args.dt > 0) =>
            /\ gen_log[j].out.kind = "returned"
            /\ \A p \in 1 .. Len(gen_log[j].out.val) :
                   /\ 0 <= gen_log[j].out.val[p]
                   /\ gen_log[j].out.val[p] < gen_log[j].args.duration
            /\ \A p \in 1 .. Len(gen_log[j].out.val) - 1 :
                   /\ gen_log[j].out.val[p + 1] > gen_log[j].out.val[p]
                   /\ gen_log[j].out.val[p + 1] - gen_log[j].out.val[p]
                          >= gen_log[j].args.refractory_period

\* a sweep of 1 ms steps with a 3 ms period that spiked at 0 and again later
C13_Witness ==
    \E j \in GenCalls("refractory_spikes") :
        /\ gen_log[j].args.refractory_period = 3
        /\ gen_log[j].args.dt = 1
        /\ gen_log[j].out.kind = "returned"
        /\ Len(gen_log[j].out.val) >= 2
        /\ gen_log[j].out.val[1] = 0

\* the burst onsets of a burst_spikes call: the bins whose trial succeeded
Onsets(call) ==
    {k * call.args.dt :
        k \in {b \in 0 .. Trunc(call.args.duration, call.args.dt) - 1 :
                  Fires(call.rng, b, call.args.burst_rate, call.args.dt)}}

\* the spikes of the burst at onset that duration does not cut off
RunLength(call, onset) ==
    Cardinality({i \in 0 .. call.args.spikes_per_burst - 1 :
                    onset + i * call.args.intraburst_interval < call.args.duration})

\* the burst at onset is a run of consecutive entries of the output, spaced
\* exactly intraburst_interval apart
AppearsAsRun(call, onset) ==
    \E p \in 1 .. Len(call.out.val) :
        \A i \in 0 .. RunLength(call, onset) - 1 :
            /\ p + i <= Len(call.out.val)
            /\ call.out.val[p + i] = onset + i * call.args.intraburst_interval

\* no burst begins before the last spike of the burst before it
Separated(call) ==
    \A a, b \in Onsets(call) :
        a < b => b - a >= (call.args.spikes_per_burst - 1) * call.args.intraburst_interval

\* C14 as stated: whatever the placement of the onsets, every burst is a run
\* of spikes_per_burst consecutive output entries (fewer when duration cuts
\* it) spaced exactly intraburst_interval apart.
C14_BurstRuns ==
    \A j \in GenCalls("burst_spikes") :
        gen_log[j].out.kind = "returned" =>
            \A onset \in Onsets(gen_log[j]) : AppearsAsRun(gen_log[j], onset)

\* C14, amended: when no two onsets are closer together than
\* (spikes_per_burst - 1) * intraburst_interval, every burst is a run of
\* spikes_per_burst consecutive output entries (fewer when duration cuts it)
\* spaced exactly intraburst_interval apart; closer bursts are interleaved by
\* the sort.
C14_SeparatedBurstRuns ==
    \A j \in GenCalls("burst_spikes") :
        (gen_log[j].out.kind = "returned" /\ Separated(gen_log[j])) =>
            \A onset \in Onsets(gen_log[j]) : AppearsAsRun(gen_log[j], onset)

\* two separated bursts of two spikes or more, none cut off
C14_Witness ==
    \E j \in GenCalls("burst_spikes") :
        /\ gen_log[j].out.kind = "returned"
        /\ Separated(gen_log[j])
        /\ Cardinality(Onsets(gen_log[j])) >= 2
        /\ gen_log[j].args.spikes_per_burst >= 2
        /\ Len(gen_log[j].out.val) =
              Cardinality(Onsets(gen_log[j])) * gen_log[j].args.spikes_per_burst

\* how many entries of times equal t
Occurrences(times, t) == Cardinality({p \in 1 .. Len(times) : times[p] = t})

\* how many spikes onset + i * intraburst_interval of the call's bursts fall on t
SpikesDue(call, t) ==
    Cardinality({oi \in Onsets(call) \X (0 .. call.args.spikes_per_burst - 1) :
                    oi[1] + oi[2] * call.args.intraburst_interval = t})

\* C15: the output of burst_spikes is sorted ascending, has no time that is
\* negative or >= duration, and holds each time t < duration as many times
\* as there are onsets and 0 <= i < spikes_per_burst with
\* onset + i * intraburst_interval = t.
C15_BurstTimesExact ==
    \A j \in GenCalls("burst_spikes") :
        gen_log[j].out.kind = "returned" =>
            /\ \A p \in 1 .. Len(gen_log[j].out.val) - 1 :
                   gen_log[j].out.val[p] <= gen_log[j].out.val[p + 1]
            /\ \A p \in 1 .. Len(gen_log[j].out.val) :
                   /\ 0 <= gen_log[j].out.val[p]
                   /\ gen_log[j].out.val[p] < gen_log[j].args.duration
            /\ \A t \in 0 .. gen_log[j].args.duration - 1 :
                   Occurrences(gen_log[j].out.val, t) = SpikesDue(gen_log[j], t)

\* overlapping bursts: a time returned twice, and a spike cut off by duration
C15_Witness ==
    \E j \in GenCalls("burst_spikes") :
        /\ gen_log[j].out.kind = "returned"
        /\ \E p \in 1 .. Len(gen_log[j].out.val) - 1 :
               gen_log[j].out.val[p] = gen_log[j].out.val[p + 1]
        /\ Len(gen_log[j].out.val) <
              Cardinality(Onsets(gen_log[j])) * gen_log[j].args.spikes_per_burst
        /\ ~Separated(gen_log[j])

\* C16: for a mode of {poisson, refractory, burst}, a rate range with
\* 0 <= low <= high and duration > 0, generate_population(n, rate_range,
\* duration, mode) returns n spike trains, the one at position i (from 0)
\* with neuron_id i and the mode asked for.
C16_PopulationOfEveryMode ==
    \A j \in GenCalls("generate_population") :
        (/\ gen_log[j].args.mode \in SpikeModes
         /\ 0 <= gen_log[j].args.rate_range[1]
         /\ gen_log[j].args.rate_range[1] <= gen_log[j].args.rate_range[2]
         /\ gen_log[j].args.duration > 0) =>
            /\ gen_log[j].out.kind = "returned"
            /\ Len(gen_log[j].out.val) = gen_log[j].args.n_neurons
            /\ \A i \in 1 .. Len(gen_log[j].out.val) :
                   /\ gen_log[j].out.val[i].neuron_id = i - 1
                   /\ gen_log[j].out.val[i].mode = gen_log[j].args.mode

\* C17: a SpikeTrain returned by generate_spike_train has spike_count =
\* len(spike_times) and firing_rate = spike_count / duration (per second,
\* duration in ms), whatever the target rate passed in.
C17_RealizedRate ==
    \A j \in GenCalls("generate_spike_train") :
        gen_log[j].out.kind = "returned" =>
            /\ gen_log[j].out.val.spike_count = Len(gen_log[j].out.val.spike_times)
            /\ gen_log[j].out.val.firing_rate.den > 0
            /\ gen_log[j].out.val.firing_rate.num * gen_log[j].out.val.duration =
                  gen_log[j].out.val.spike_count * 1000 * gen_log[j].out.val.firing_rate.den

\* a train with spikes whose realized rate is not the target rate
C17_Witness ==
    \E j \in GenCalls("generate_spike_train") :
        /\ gen_log[j].out.kind = "returned"
        /\ gen_log[j].out.val.spike_count > 0
        /\ gen_log[j].out.val.firing_rate.num #
              gen_log[j].args.rate * gen_log[j].out.val.firing_rate.den

(***************************************************************************)
(* Properties of an EEGGenerator used on its own.                          *)
(***************************************************************************)
\* floor(duration * sampling_rate), duration in ms
SamplesDue(duration) == (duration * eeg_gen.sampling_rate) \div 1000

KnownBands == {"delta", "theta", "alpha", "beta", "gamma"}
KnownStates == {"relaxed", "focused", "drowsy", "active"}

\* the call returned a signal of the length due
SignalOfLengthDue(call) ==
    /\ call.out.kind = "returned"
    /\ Len(call.out.val) = SamplesDue(call.args.duration)

\* the call returned one channel sample per name, in the order of the names,
\* each with signal and time of the length due
MontageOfLengthDue(call) ==
    /\ call.out.kind = "returned"
    /\ Len(call.out.val) = Len(call.args.channel_names)
    /\ \A k \in 1 .. Len(call.out.val) :
           /\ call.out.val[k].channel_name = call.args.channel_names[k]
           /\ Len(call.out.val[k].signal) = SamplesDue(call.args.duration)
           /\ Len(call.out.val[k].time) = SamplesDue(call.args.duration)

\* C18: for duration > 0 and a known state, generate_montage returns one
\* channel sample per input name, in input order and with that name, whose
\* signal and time have floor(duration * sampling_rate) entries; and for
\* duration > 0 generate_band (known band), generate_mixed_signal and
\* generate_mental_state (known state) return signals of that length.
C18_SignalLengths ==
    \A j \in 1 .. Len(gen_log) :
        gen_log[j].args.duration > 0 =>
            /\ (gen_log[j].op = "generate_montage" /\ gen_log[j].args.state \in KnownStates)
                  => MontageOfLengthDue(gen_log[j])
            /\ (gen_log[j].op = "generate_band" /\ gen_log[j].args.band_name \in KnownBands)
                  => SignalOfLengthDue(gen_log[j])
            /\ gen_log[j].op = "generate_mixed_signal"
                  => SignalOfLengthDue(gen_log[j])
            /\ (gen_log[j].op = "generate_mental_state"
                    /\ gen_log[j].args.state \in KnownStates)
                  => SignalOfLengthDue(gen_log[j])

(***************************************************************************)
(* Properties of get_summary_stats.                                        *)
(***************************************************************************)
\* the get_summary_stats calls made on instance i
StatsCalls(i) == {j \in 1 .. Len(calls[i]) : calls[i][j].op = "get_summary_stats"}

\* the length of the history of instance i when its call j was made: the
\* simulations and checks before it that returned
HistoryLenAt(i, j) ==
    Cardinality({k \in 1 .. j - 1 :
                    calls[i][k].op # "get_summary_stats" /\ outs[i][k].kind = "returned"})

\* C19: get_summary_stats never raises (it divides by no zero); on an empty
\* history it returns total_simulations = 0 and total_duration = 0, and on a
\* non-empty history of total duration 0 it returns average_firing_rate = 0.
C19_StatsWellDefined ==
    \A i \in Instances : \A j \in StatsCalls(i) :
        /\ outs[i][j].kind = "returned"
        /\ HistoryLenAt(i, j) = 0 =>
              /\ outs[i][j].val.total_simulations = 0
              /\ outs[i][j].val.total_duration = 0
        /\ (HistoryLenAt(i, j) > 0 /\ outs[i][j].val.total_duration = 0) =>
              outs[i][j].val.average_firing_rate = [num |-> 0, den |-> 1]

\* statistics taken after one simulation of duration 0
C19_Witness ==
    \E i \in Instances : \E j \in StatsCalls(i) :
        /\ HistoryLenAt(i, j) > 0
        /\ outs[i][j].kind = "returned"
        /\ outs[i][j].val.total_simulations > 0
        /\ outs[i][j].val.total_duration = 0

\* C20: every result of get_summary_stats has a total spike count and an
\* average firing rate; on a non-empty history the average is the total
\* spikes over the total duration (per second, durations in ms), on an empty
\* one the average and the total spikes are 0.
C20_StatsReportRate ==
    \A i \in Instances : \A j \in StatsCalls(i) :
        /\ outs[i][j].kind = "returned"
        /\ {"total_spikes", "average_firing_rate"} \subseteq DOMAIN outs[i][j].val
        /\ HistoryLenAt(i, j) > 0 =>
              outs[i][j].val.average_firing_rate.num * outs[i][j].val.total_duration =
                  outs[i][j].val.total_spikes * 1000
                      * outs[i][j].val.average_firing_rate.den
        /\ HistoryLenAt(i, j) = 0 =>
              /\ outs[i][j].val.average_firing_rate.num = 0
              /\ outs[i][j].val.total_spikes = 0

\* the history of instance i when its call j was made (the history only grows
\* at its end)
HistoryAt(i, j) == SubSeq(brain[i].activity_history, 1, HistoryLenAt(i, j))

RECURSIVE SumOfStates(_, _, _)
\* the sum of the field (1: count, 2: duration) over the states of a breakdown
SumOfStates(states, left, field) ==
    IF left = {} THEN 0
    ELSE LET st == CHOOSE x \in left : TRUE
         IN  (IF field = 1 THEN states[st].count ELSE states[st].duration)
             + SumOfStates(states, left \ {st}, field)

\* C21: after any sequence of successful simulations the statistics agree
\* with the history: total_simulations is its length, the states of the
\* breakdown are the states of its entries, the per-state counts sum to
\* total_simulations and the per-state durations to total_duration, and (on
\* a non-empty history, where the field exists) total_spikes is the sum of
\* the entries' spike_count.
C21_StatsMatchHistory ==
    \A i \in Instances : \A j \in StatsCalls(i) :
        /\ outs[i][j].kind = "returned"
        /\ outs[i][j].val.total_simulations = Len(HistoryAt(i, j))
        /\ DOMAIN outs[i][j].val.states =
              {HistoryAt(i, j)[k].state : k \in 1 .. Len(HistoryAt(i, j))}
        /\ SumOfStates(outs[i][j].val.states, DOMAIN outs[i][j].val.states, 1)
              = outs[i][j].val.total_simulations
        /\ SumOfStates(outs[i][j].val.states, DOMAIN outs[i][j].val.states, 2)
              = outs[i][j].val.total_duration
        /\ outs[i][j].val.total_duration =
              SumSeq([k \in 1 .. Len(HistoryAt(i, j)) |-> HistoryAt(i, j)[k].duration])
        /\ HistoryAt(i, j) # <<>> =>
              outs[i][j].val.total_spikes =
                  SumSeq([k \in 1 .. Len(HistoryAt(i, j)) |->
                             HistoryAt(i, j)[k].spike_count])

\* statistics over two simulations in different states, with spikes
C21_Witness ==
    \E i \in Instances : \E j \in StatsCalls(i) :
        /\ outs[i][j].kind = "returned"
        /\ outs[i][j].val.total_simulations = 2
        /\ Cardinality(DOMAIN outs[i][j].val.states) = 2
        /\ outs[i][j].val.total_spikes > 0

(***************************************************************************)
(* Properties of the IntuitionRollAPI.                                     *)
(***************************************************************************)
\* the logged calls that make checks
CheckCalls ==
    {j \in 1 .. Len(api_log) :
        api_log[j].op \in {"intuition_check", "batch_intuition_checks"}}

\* the positions in the events of a call where a check begins
Starts(events) == {p \in 1 .. Len(events) : events[p].kind = "intuition_check"}

\* the events of the check that begins at p
EventsOfCheck(events, p) ==
    LET later == {q \in Starts(events) : q > p}
    IN  SubSeq(events, p,
               IF later = {} THEN Len(events)
               ELSE (CHOOSE q \in later : \A r \in later : q <= r) - 1)

\* the check returned
Completed(check) == Last(check).kind = "return"

\* the d20 roll of the check, 0 when the check raised before it had one
RollOf(check) ==
    LET signal == SelectSeq(check, LAMBDA e : e.kind = "signal")
    IN  IF signal = <<>> THEN 0 ELSE signal[1].d20_roll

\* the ids of the callbacks invoked for the event in the check, in order
IdsInvoked(check, event) ==
    LET invoked == SelectSeq(check, LAMBDA e : e.kind = "callback" /\ e.event = event)
    IN  [k \in 1 .. Len(invoked) |-> invoked[k].id]

\* the ids of the callbacks registered for the event, in order
IdsRegistered(callbacks, event) ==
    [k \in 1 .. Len(callbacks[event]) |-> callbacks[event][k].id]

\* C22: in every intuition_check (made alone or in a batch) the callbacks of
\* critical_success are invoked exactly when the d20 roll is 20 and those of
\* critical_failure exactly when it is 1, never both; a check that completes
\* invokes every pre_roll and every post_roll callback once.
C22_CriticalHooks ==
    \A j \in CheckCalls : \A p \in Starts(api_log[j].events) :
        LET check == EventsOfCheck(api_log[j].events, p)
        IN  /\ IdsInvoked(check, "critical_success") =
                  IF RollOf(check) = 20
                  THEN IdsRegistered(api_log[j].callbacks, "critical_success")
                  ELSE <<>>
            /\ IdsInvoked(check, "critical_failure") =
                  IF RollOf(check) = 1
                  THEN IdsRegistered(api_log[j].callbacks, "critical_failure")
                  ELSE <<>>
            /\ \/ IdsInvoked(check, "critical_success") = <<>>
               \/ IdsInvoked(check, "critical_failure") = <<>>
            /\ Completed(check) =>
                  /\ IdsInvoked(check, "pre_roll") =
                        IdsRegistered(api_log[j].callbacks, "pre_roll")
                  /\ IdsInvoked(check, "post_roll") =
                        IdsRegistered(api_log[j].callbacks, "post_roll")

\* a completed check that rolled 20 and invoked the two critical_success
\* callbacks and the two post_roll callbacks
C22_Witness ==
    \E j \in CheckCalls : \E p \in Starts(api_log[j].events) :
        /\ Completed(EventsOfCheck(api_log[j].events, p))
        /\ RollOf(EventsOfCheck(api_log[j].events, p)) = 20
        /\ Len(IdsInvoked(EventsOfCheck(api_log[j].events, p), "critical_success")) = 2
        /\ Len(IdsInvoked(EventsOfCheck(api_log[j].events, p), "post_roll")) = 2

\* the check reached the signal generation and got its roll
Rolled(check) == RollOf(check) # 0

\* the positions in the check where the error of a callback was printed
CallbacksRaising(check) ==
    {k \in 1 .. Len(check) : check[k].kind = "print"}

\* C23: a callback that raises does not abort the check: whatever callbacks
\* raise, every callback registered for pre_roll is invoked, and once the
\* signal is generated the callbacks of the critical event of the roll and of
\* post_roll are all invoked, the result is logged when logging is enabled and
\* returned; a check stops early only on an error of the signal generation,
\* and no call raises the Exception of a callback.
C23_CallbackErrorsContained ==
    /\ \A j \in 1 .. Len(api_log) : api_log[j].out # Raised("Exception")
    /\ \A j \in CheckCalls : \A p \in Starts(api_log[j].events) :
          LET check == EventsOfCheck(api_log[j].events, p)
              critical == CriticalEvent(RollOf(check))
          IN  /\ IdsInvoked(check, "pre_roll") =
                    IdsRegistered(api_log[j].callbacks, "pre_roll")
              /\ Rolled(check) =>
                    /\ critical # "None" =>
                          IdsInvoked(check, critical) =
                              IdsRegistered(api_log[j].callbacks, critical)
                    /\ IdsInvoked(check, "post_roll") =
                          IdsRegistered(api_log[j].callbacks, "post_roll")
                    /\ Completed(check)
                    /\ api.enable_logging =>
                          check[Len(check) - 1].kind = "log"
              /\ ~Rolled(check) =>
                    /\ api_log[j].out.kind = "raised"
                    /\ Last(check).kind \in {"intuition_check", "callback", "print"}
    /\ \A j \in CheckCalls :
          api_log[j].out.kind = "returned" =>
              \A p \in Starts(api_log[j].events) :
                  Completed(EventsOfCheck(api_log[j].events, p))

\* a completed and logged check in which a pre_roll, a critical_failure and a
\* post_roll callback raised, each followed by a callback that was invoked
C23_Witness ==
    \E j \in CheckCalls : \E p \in Starts(api_log[j].events) :
        /\ Completed(EventsOfCheck(api_log[j].events, p))
        /\ api.enable_logging
        /\ RollOf(EventsOfCheck(api_log[j].events, p)) = 1
        /\ \A event \in {"pre_roll", "critical_failure", "post_roll"} :
              IdsInvoked(EventsOfCheck(api_log[j].events, p), event) = <<"r", "k">>
        /\ Cardinality(CallbacksRaising(EventsOfCheck(api_log[j].events, p))) = 3

\* the events a callback can be registered for
HookEvents == {"pre_roll", "post_roll", "critical_success", "critical_failure"}

\* the registry after the j-th logged call
CallbacksAfter(j) ==
    IF j < Len(api_log) THEN api_log[j + 1].callbacks ELSE api.callbacks

RegisterCalls == {j \in 1 .. Len(api_log) : api_log[j].op = "register_callback"}

\* C24: register_callback with an event outside the four hook events raises
\* ValueError and leaves the registry as it was; the keys of the registry are
\* the four events before and after every call; a registration that succeeds
\* appends the callback to the list of its event and changes no other list.
C24_RegistryKeys ==
    /\ DOMAIN api.callbacks = HookEvents
    /\ \A j \in 1 .. Len(api_log) : DOMAIN api_log[j].callbacks = HookEvents
    /\ \A j \in RegisterCalls :
          IF api_log[j].args.event \in HookEvents
          THEN /\ api_log[j].out.kind = "returned"
               /\ CallbacksAfter(j) =
                     [api_log[j].callbacks EXCEPT ![api_log[j].args.event] =
                         Append(@, api_log[j].args.callback)]
          ELSE /\ api_log[j].out = Raised("ValueError")
               /\ CallbacksAfter(j) = api_log[j].callbacks

\* a registration for on_roll that raised, after one that appended a third
\* callback to the list of pre_roll
C24_Witness ==
    /\ Len(api_log) = 2
    /\ RegisterCalls = {1, 2}
    /\ api_log[1].args.event = "pre_roll"
    /\ Len(api_log[1].callbacks["pre_roll"]) = 2
    /\ Len(api_log[2].callbacks["pre_roll"]) = 3
    /\ api_log[2].args.event = "on_roll"
    /\ api_log[2].out.kind = "raised"
    /\ api.callbacks = api_log[2].callbacks

RECURSIVE ResultsUpTo(_)
\* the results of the checks completed in the first j logged calls, in order
ResultsUpTo(j) ==
    IF j = 0 THEN <<>>
    ELSE LET returns == SelectSeq(api_log[j].events, LAMBDA e : e.kind = "return")
         IN  ResultsUpTo(j - 1) \o [k \in 1 .. Len(returns) |-> returns[k].result]

StatisticsCalls == {j \in 1 .. Len(api_log) : api_log[j].op = "get_statistics"}

\* the number of results that satisfy the test
CountOf(results, Test(_)) == Cardinality({k \in 1 .. Len(results) : Test(results[k])})

\* C25: with logging enabled the log has one entry per completed check, and
\* get_statistics returns total_checks equal to the number of checks completed
\* before it; when there is one, success_count, critical_success_count and
\* critical_failure_count are the numbers of completed checks with success,
\* with a roll of 20 and with a roll of 1, each in 0 .. total_checks; when
\* there is none it returns total_checks = 0 and raises nothing.
C25_StatisticsMatchChecks ==
    api.enable_logging =>
        /\ Len(api.log_entries) = Len(ResultsUpTo(Len(api_log)))
        /\ \A j \in StatisticsCalls :
              LET done  == ResultsUpTo(j - 1)
                  stats == api_log[j].out
              IN  /\ stats.kind = "returned"
                  /\ stats.val.total_checks = Len(done)
                  /\ done # <<>> =>
                        /\ stats.val.success_count =
                              CountOf(done, LAMBDA r : r.intuition_check.success)
                        /\ stats.val.critical_success_count =
                              CountOf(done, LAMBDA r : r.intuition_check.d20_roll = 20)
                        /\ stats.val.critical_failure_count =
                              CountOf(done, LAMBDA r : r.intuition_check.d20_roll = 1)
                        /\ \A count \in {stats.val.success_count,
                                          stats.val.critical_success_count,
                                          stats.val.critical_failure_count} :
                              count \in 0 .. stats.val.total_checks

\* statistics of two completed checks of which one rolled 20 and succeeded and
\* the other failed
C25_Witness ==
    /\ api.enable_logging
    /\ \E j \in StatisticsCalls :
          /\ api_log[j].out.kind = "returned"
          /\ api_log[j].out.val.total_checks = 2
          /\ api_log[j].out.val.success_count = 1
          /\ api_log[j].out.val.critical_success_count = 1
          /\ api_log[j].out.val.critical_failure_count = 0

(***************************************************************************)
(* Properties of generate_mixed_signal.                                    *)
(***************************************************************************)
\* the weights given to the call, the five equal ones when omitted
InputWeights(call) ==
    IF call.args.band_weights = "None" THEN DefaultBandWeights
    ELSE call.args.band_weights

InputTotal(call) ==
    SumSeq([k \in 1 .. Len(InputWeights(call)) |-> InputWeights(call)[k][2]])

\* the amplitudes of the band signals summed into the first sample
WeightsUsed(call) ==
    LET bands == call.out.val[1].bands
    IN  [k \in 1 .. Len(bands) |-> <<bands[k].band, bands[k].amplitude>>]

\* the fractions have one denominator d and numerators that sum to d
SumToOne(weights) ==
    \E d \in {weights[k][2].den : k \in 1 .. Len(weights)} :
        /\ d # 0
        /\ \A k \in 1 .. Len(weights) : weights[k][2].den = d
        /\ SumSeq([k \in 1 .. Len(weights) |-> weights[k][2].num]) = d

\* every band given a weight other than zero is used with its share of the
\* input total, and no other band is used
SharesPreserved(call) ==
    LET given == SelectSeq(InputWeights(call), LAMBDA w : w[2] # 0)
    IN  /\ Len(WeightsUsed(call)) = Len(given)
        /\ \A k \in 1 .. Len(given) :
              /\ WeightsUsed(call)[k][1] = given[k][1]
              /\ WeightsUsed(call)[k][2].num * InputTotal(call) =
                     given[k][2] * WeightsUsed(call)[k][2].den

\* C26: every generate_mixed_signal call over known bands returns, whatever
\* the sum of the input weights, and when it returns a sample the weights used
\* for the bands of the sample sum to 1, each band with its share of the input
\* total (1/5 for each of the five bands when band_weights is omitted).
C26_WeightsSumToOne ==
    \A j \in GenCalls("generate_mixed_signal") :
        /\ gen_log[j].out.kind = "returned"
        /\ Len(gen_log[j].out.val) > 0 =>
              /\ SumToOne(WeightsUsed(gen_log[j]))
              /\ SharesPreserved(gen_log[j])

\* the same for input weights that are all positive
C26_PositiveWeightsSumToOne ==
    \A j \in GenCalls("generate_mixed_signal") :
        (\A k \in 1 .. Len(InputWeights(gen_log[j])) : InputWeights(gen_log[j])[k][2] > 0)
            => /\ gen_log[j].out.kind = "returned"
               /\ Len(gen_log[j].out.val) > 0 =>
                     /\ SumToOne(WeightsUsed(gen_log[j]))
                     /\ SharesPreserved(gen_log[j])

(***************************************************************************)
(* The order of the events of a check, and of the checks of a batch.       *)
(***************************************************************************)
\* the step of intuition_check an event belongs to
Phase(e) ==
    CASE e.kind = "intuition_check" -> 0
      [] e.kind \in {"callback", "print"} /\ e.event = "pre_roll" -> 1
      [] e.kind = "signal" -> 2
      [] e.kind \in {"callback", "print"}
            /\ e.event \in {"critical_success", "critical_failure"} -> 3
      [] e.kind \in {"callback", "print"} /\ e.event = "post_roll" -> 4
      [] e.kind = "log" -> 5
      [] e.kind = "return" -> 6

\* the names of the checks begun in the call, in the order they began
NamesBegun(events) ==
    LET begun == SelectSeq(events, LAMBDA e : e.kind = "intuition_check")
    IN  [k \in 1 .. Len(begun) |-> begun[k].character_name]

\* the names asked for by the call, in input order
NamesAsked(call) ==
    IF call.op = "intuition_check" THEN <<call.args.character_name>>
    ELSE [k \in 1 .. Len(call.args.checks) |->
             Kw(call.args.checks[k], "character_name", "Unknown")]

\* the results the call returned, in the order of the list returned
ResultsReturned(call) ==
    IF call.op = "intuition_check" THEN <<call.out.val>> ELSE call.out.val

\* the results of the checks of the call, in the order they completed
ResultsCompleted(call) ==
    LET returns == SelectSeq(call.events, LAMBDA e : e.kind = "return")
    IN  [k \in 1 .. Len(returns) |-> returns[k].result]

\* C27: in every check the events come in the order pre_roll callbacks, roll
\* and signal, callbacks of the critical event, post_roll callbacks, log entry,
\* return, the callbacks of an event in the order they were registered; the
\* checks of a call begin one after another in input order, each after the one
\* before it returned, and the results are returned in that order.
C27_EventOrder ==
    \A j \in CheckCalls :
        LET call == api_log[j]
        IN  /\ \A p \in Starts(call.events) :
                  LET check == EventsOfCheck(call.events, p)
                  IN  /\ \A a, b \in 1 .. Len(check) :
                            a < b => Phase(check[a]) <= Phase(check[b])
                      /\ \A event \in HookEvents :
                            IdsInvoked(check, event) \in
                                {<<>>, IdsRegistered(call.callbacks, event)}
                      /\ \A q \in Starts(call.events) : p < q => Completed(check)
            /\ NamesBegun(call.events) =
                  SubSeq(NamesAsked(call), 1, Len(NamesBegun(call.events)))
            /\ call.out.kind = "returned" =>
                  /\ NamesBegun(call.events) = NamesAsked(call)
                  /\ ResultsReturned(call) = ResultsCompleted(call)
                  /\ \A k \in 1 .. Len(NamesAsked(call)) :
                        ResultsReturned(call)[k].character_name = NamesAsked(call)[k]

\* a returned batch of two checks, logged, the first with a roll of 1 and with
\* two callbacks invoked at pre_roll, at critical_failure and at post_roll
C27_Witness ==
    \E j \in CheckCalls :
        /\ api_log[j].op = "batch_intuition_checks"
        /\ api_log[j].out.kind = "returned"
        /\ NamesBegun(api_log[j].events) = <<"Ann", "Bob">>
        /\ Len(SelectSeq(api_log[j].events, LAMBDA e : e.kind = "log")) = 2
        /\ RollOf(EventsOfCheck(api_log[j].events, 1)) = 1
        /\ \A event \in {"pre_roll", "critical_failure", "post_roll"} :
              Len(IdsInvoked(EventsOfCheck(api_log[j].events, 1), event)) = 2

(***************************************************************************)
(* The ActivityHistory of the API's brain model.                           *)
(***************************************************************************)
\* the durations asked for by the checks of the call, in input order
DurationsAsked(call) ==
    IF call.op = "intuition_check" THEN <<call.args.duration>>
    ELSE [k \in 1 .. Len(call.args.checks) |-> Kw(call.args.checks[k], "duration", 1000)]

\* the signal events of the checks of the call that completed, in order
SignalsCompleted(call) ==
    LET starts == {p \in Starts(call.events) : Completed(EventsOfCheck(call.events, p))}
    IN  SelectSeq(call.events,
                  LAMBDA e : e.kind = "signal"
                             /\ \E p \in starts :
                                   e \in {EventsOfCheck(call.events, p)[q] :
                                            q \in 1 .. Len(EventsOfCheck(call.events, p))})

\* C28: the history of the API's brain model has one entry per completed
\* check, in order, and no other; the entry of a check has the state of the
\* result's neural_summary, which is the state the classification gives for
\* the result's total_score and difficulty_class, the spike_count equal to
\* neural_summary.total_spikes and the duration asked for; the snapshot of the
\* check had n_neurons spike trains and one EEG signal per channel.
C28_HistoryMatchesResults ==
    /\ Len(api.brain_model.activity_history) = Len(ResultsUpTo(Len(api_log)))
    /\ \A j \in CheckCalls :
          LET call    == api_log[j]
              results == ResultsCompleted(call)
              signals == SignalsCompleted(call)
              before  == Len(ResultsUpTo(j - 1))
          IN  /\ Len(signals) = Len(results)
              /\ \A k \in 1 .. Len(results) :
                    LET entry   == api.brain_model.activity_history[before + k]
                        summary == results[k].neural_summary
                        check   == results[k].intuition_check
                    IN  /\ entry.state = summary.state
                        /\ summary.state =
                              Expected(check.total_score, check.difficulty_class)[1]
                        /\ entry.spike_count = summary.total_spikes
                        /\ entry.duration = summary.duration
                        /\ entry.duration = DurationsAsked(call)[k]
                        /\ DOMAIN entry = {"duration", "state", "spike_count"}
                        /\ summary.n_neurons = api.brain_model.n_neurons
                        /\ signals[k].n_spike_trains = api.brain_model.n_neurons
                        /\ signals[k].n_eeg_signals = Len(api.brain_model.eeg_channels)

\* two checks completed by a brain model with a neuron, with different states
\* and with spikes in the entry of one of them
C28_Witness ==
    /\ api.brain_model.n_neurons > 0
    /\ Len(ResultsUpTo(Len(api_log))) = 2
    /\ Len(api.brain_model.activity_history) = 2
    /\ api.brain_model.activity_history[1].state #
           api.brain_model.activity_history[2].state
    /\ \E k \in 1 .. 2 : api.brain_model.activity_history[k].spike_count > 0

====
